---- MODULE Spec2Model ----
(***************************************************************************)
(* The BF2 visible-mesh codec of io_scene_bf2/core/bf2/bf2_mesh/           *)
(* bf2_visiblemesh.py: BF2VisibleMesh.export writes a document to a file,  *)
(* BF2VisibleMesh(file) loads one back.                                    *)
(*                                                                         *)
(* A file is a sequence of fields [k, v]: k is the kind of the field       *)
(* ("b" byte, "w" word, "d" dword, "f" float, "s" length-prefixed string,  *)
(* "raw" the vertex buffer, "words" the index buffer), v its value.  A     *)
(* read consumes the next field; a read that finds a field of another kind *)
(* has run off the layout the writer used and is reported as "Misparse".   *)
(* Float values are integers; what struct's 'f' keeps of them is Float32.  *)
(*                                                                         *)
(* The controller-setup mode of operators/ops_view_3d.py is a second state *)
(* machine (SetupSpec) over the editor menu and the scenes' setup flags.   *)
(***************************************************************************)
EXTENDS Integers, Sequences, FiniteSets, TLC

VARIABLES
    mesh,       \* the document in memory (NoMesh after a failed construction)
    doc0,       \* the document the run started from
    prev,       \* the document as it was when the last export began
    file,       \* the fields of the file on disk
    err,        \* the exception of the last export or construction, OK if none
    pc,         \* "built", "exported", "export_failed", "loaded", "load_failed"
    gen,        \* the number of exports so far
    tampered,   \* whether another tool changed the first file
    consumed,   \* what the last load read: bytes, sections, face-set count
    exp,        \* the sections of the file, as the last export wrote them
    VIEW3D_MT_editor_menus, \* how often menu_func_view3d is in the editor menu
    bf2_is_setup,           \* per scene: whether scene['bf2_is_setup'] is set
    controllers_step,       \* per scene: the step setup_controllers last completed
    dialog,                 \* whether the dialog of the begin operator is open
    reported                \* whether the last operator reported an error

codec_vars == <<mesh, doc0, prev, file, err, pc, gen, tampered, consumed, exp>>
setup_vars == <<VIEW3D_MT_editor_menus, bf2_is_setup, controllers_step, dialog,
                reported>>
vars == <<codec_vars, setup_vars>>

(* ------------------------------------------------------------------ *)
(* Bounds of the model                                                 *)
(* ------------------------------------------------------------------ *)

\* export/load round trips followed from the initial document
MaxRoundTrips == 2
\* significand bits kept by a packed float.  struct's 'f' keeps 24; the
\* model keeps fewer so that the first value that does not survive packing,
\* 2^MantissaBits + 1, stays within TLC's integers in the sort keys.
MantissaBits == 3
\* scenes of the host application an operator can be executed in
NumScenes == 2
\* entries of the editor menu beyond which no setup is begun
MaxMenuEntries == 4

(* ------------------------------------------------------------------ *)
(* Program constants                                                   *)
(* ------------------------------------------------------------------ *)

FLOAT1 == 0
FLOAT2 == 1
FLOAT3 == 2
FLOAT4 == 3
D3DCOLOR == 4
DECL_UNUSED == 17
POSITION == 0
TEXCOORD0 == 5
TRIANGLELIST == 4
TRIANGLESTRIP == 5
USED == 0
UNUSED == 255
ALPHA_BLEND_FACE_SET_COUNT == 8
NONE == 0
ALPHA_BLEND == 1
ALPHA_TEST == 2
LEGACY_VERSION == 6

\* the members of the three enums a file value is converted to
D3DDECLTYPE == 0..17
D3DDECLUSAGE == (0..13) \cup {261, 517, 773, 1029}
D3DPRIMITIVETYPE == 1..6
AlphaMode == {NONE, ALPHA_BLEND, ALPHA_TEST}

\* Python's None for an integer attribute and for a tuple attribute
NoneInt == -1
NoneVal == <<>>
\* float("inf")
Inf == 1000000

OK == "ok"

(* ------------------------------------------------------------------ *)
(* Helpers                                                             *)
(* ------------------------------------------------------------------ *)

Abs(x) == IF x < 0 THEN -x ELSE x
Max2(a, b) == IF a > b THEN a ELSE b
Min2(a, b) == IF a < b THEN a ELSE b

RECURSIVE Pow2(_)
Pow2(n) == IF n = 0 THEN 1 ELSE 2 * Pow2(n - 1)

RECURSIVE Flatten(_)
Flatten(ss) == IF ss = <<>> THEN <<>> ELSE Head(ss) \o Flatten(Tail(ss))

\* D3DDECLTYPE.get_struct_fmt: the number of 4-byte cells of a supported
\* element type ('1f'..'4f', '4B', ''); -1 where the lookup raises KeyError
StructCells(t) ==
    CASE t = FLOAT1 -> 1
      [] t = FLOAT2 -> 2
      [] t = FLOAT3 -> 3
      [] t = FLOAT4 -> 4
      [] t = D3DCOLOR -> 1
      [] t = DECL_UNUSED -> 0
      [] OTHER -> -1

\* struct.calcsize of the format of element type t
StructSize(t) == 4 * StructCells(t)

\* the spacing of the packed floats around magnitude a
RECURSIVE Ulp(_)
Ulp(a) == IF a < Pow2(MantissaBits) THEN 1 ELSE 2 * Ulp(a \div 2)

\* the magnitude a rounded to the nearest packed float, ties to even
RoundMag(a) ==
    LET u == Ulp(a)
        q == a \div u
        r == a % u
    IN  IF 2 * r < u THEN q * u
        ELSE IF 2 * r > u THEN (q + 1) * u
        ELSE IF q % 2 = 0 THEN q * u ELSE (q + 1) * u

\* struct.pack('f', x) followed by struct.unpack: the value a float field holds
Float32(x) ==
    IF x = Inf \/ x = -Inf THEN x
    ELSE IF x < 0 THEN -RoundMag(-x) ELSE RoundMag(x)

Float32Tuple(t) == [i \in 1..Len(t) |-> Float32(t[i])]

(* ------------------------------------------------------------------ *)
(* The in-memory document                                              *)
(* ------------------------------------------------------------------ *)

\* Vertex.__init__ with the two channels the model's tables declare
Vertex(position, texcoord0) == [position |-> position, texcoord0 |-> texcoord0]

\* getattr(vertex, decl_usage.name.lower())
Channel(vertex, usage) ==
    IF usage = POSITION THEN vertex.position
    ELSE IF usage = TEXCOORD0 THEN vertex.texcoord0
    ELSE NoneVal

\* setattr(vertex, decl_usage.name.lower(), value)
SetChannel(vertex, usage, value) ==
    IF usage = POSITION THEN [vertex EXCEPT !.position = value]
    ELSE IF usage = TEXCOORD0 THEN [vertex EXCEPT !.texcoord0 = value]
    ELSE vertex

\* VertexAttribute.__init__
VertexAttribute(decl_type, decl_usage) ==
    [_flag |-> NoneInt, _offset |-> NoneInt,
     decl_type |-> decl_type, decl_usage |-> decl_usage]

\* Material.__init__ / MaterialWithTransparency.__init__, with the fields a
\* caller fills in before export
Material(alpha_mode, fxfile, technique, maps, vertices, faces) ==
    [alpha_mode |-> alpha_mode, face_sets |-> NoneVal,
     _alpha_blend_indexnum |-> NoneInt,
     fxfile |-> fxfile, technique |-> technique, maps |-> maps,
     vertices |-> vertices, faces |-> faces,
     _vstart |-> NoneInt, _istart |-> NoneInt, _inum |-> NoneInt, _vnum |-> NoneInt,
     _u4 |-> NoneInt, _u5 |-> NoneInt, _min |-> NoneVal, _max |-> NoneVal]

\* Lod.__init__
Lod(materials) == [_min |-> NoneVal, _max |-> NoneVal, materials |-> materials]

\* Geom.__init__
Geom(lods) == [lods |-> lods]

\* BF2VisibleMesh.__init__ without a file; transparent is
\* issubclass(_GEOM_TYPE._LOD_TYPE._MATERIAL_TYPE, MaterialWithTransparency)
BF2VisibleMesh(transparent, version, vertex_attributes, geoms) ==
    [transparent |-> transparent, _VERSION |-> version,
     vertex_attributes |-> vertex_attributes, geoms |-> geoms]

\* no document: what a failed construction leaves the caller with
NoMesh == BF2VisibleMesh(FALSE, 0, <<>>, <<>>)

\* the (geom, lod) pairs of a document, in the order of the nested loops
LodPaths(geoms) ==
    Flatten([g \in 1..Len(geoms) |->
        [l \in 1..Len(geoms[g].lods) |-> <<g, l>>]])

\* the (geom, lod, material) triples of a document, in the order of the loops
MatPaths(geoms) ==
    Flatten([g \in 1..Len(geoms) |->
        Flatten([l \in 1..Len(geoms[g].lods) |->
            [m \in 1..Len(geoms[g].lods[l].materials) |-> <<g, l, m>>]])])

MatAt(geoms, p) == geoms[p[1]].lods[p[2]].materials[p[3]]
LodAt(geoms, p) == geoms[p[1]].lods[p[2]]
SetMat(geoms, p, mat) == [geoms EXCEPT ![p[1]].lods[p[2]].materials[p[3]] = mat]
SetLod(geoms, p, lod) == [geoms EXCEPT ![p[1]].lods[p[2]] = lod]

(* ------------------------------------------------------------------ *)
(* File fields                                                         *)
(* ------------------------------------------------------------------ *)

B(v) == [k |-> "b", v |-> v]
W(v) == [k |-> "w", v |-> v]
D(v) == [k |-> "d", v |-> v]
F(v) == [k |-> "f", v |-> Float32(v)]
S(v) == [k |-> "s", v |-> v]
\* write_raw / write_word(list): nothing is written for an empty buffer
Raw(cells) == IF cells = <<>> THEN <<>> ELSE <<[k |-> "raw", v |-> cells]>>
Words(ws) == IF ws = <<>> THEN <<>> ELSE <<[k |-> "words", v |-> ws]>>

\* Vec3.save
Vec3Fields(v) == <<F(v[1]), F(v[2]), F(v[3])>>

\* the number of bytes of a field
FieldBytes(fld) ==
    CASE fld.k = "b" -> 1
      [] fld.k = "w" -> 2
      [] fld.k = "d" -> 4
      [] fld.k = "f" -> 4
      [] fld.k = "s" -> 4 + Len(fld.v)
      [] fld.k = "raw" -> 4 * Len(fld.v)
      [] fld.k = "words" -> 2 * Len(fld.v)

RECURSIVE ByteSize(_)
ByteSize(fields) ==
    IF fields = <<>> THEN 0 ELSE FieldBytes(Head(fields)) + ByteSize(Tail(fields))

(* ------------------------------------------------------------------ *)
(* Bounds and the alpha-blend sorter                                   *)
(* ------------------------------------------------------------------ *)

\* bf2_common.calc_bounds: the component-wise minimum and maximum
RECURSIVE MinOf(_, _)
MinOf(verts, i) ==
    IF Len(verts) = 1 THEN verts[1][i] ELSE Min2(verts[1][i], MinOf(Tail(verts), i))
RECURSIVE MaxOf(_, _)
MaxOf(verts, i) ==
    IF Len(verts) = 1 THEN verts[1][i] ELSE Max2(verts[1][i], MaxOf(Tail(verts), i))
calc_bounds(verts) ==
    <<[i \in 1..3 |-> MinOf(verts, i)], [i \in 1..3 |-> MaxOf(verts, i)]>>

\* Material.calc_bounds: [err, mat] with mat._min, mat._max assigned
Material_calc_bounds(mat) ==
    IF mat.vertices = <<>> THEN [err |-> "ValueError", mat |-> mat]
    ELSE IF \E i \in 1..Len(mat.vertices) : mat.vertices[i].position = NoneVal
    THEN [err |-> "TypeError", mat |-> mat]
    ELSE LET verts == [i \in 1..Len(mat.vertices) |-> mat.vertices[i].position]
             b == calc_bounds(verts)
         IN  [err |-> OK, mat |-> [mat EXCEPT !._min = b[1], !._max = b[2]]]

\* lengths are kept in units of 1/Scale
Scale == 10 ^ 3

RECURSIVE ISqrtIn(_, _, _)
ISqrtIn(n, lo, hi) ==
    IF lo >= hi THEN lo
    ELSE LET mid == (lo + hi + 1) \div 2
         IN  IF mid * mid <= n THEN ISqrtIn(n, mid, hi) ELSE ISqrtIn(n, lo, mid - 1)

\* Vec3.distance(Vec3(), v), in units of 1/Scale
Distance0(v) ==
    LET n == v[1] * v[1] + v[2] * v[2] + v[3] * v[3]
    IN  ISqrtIn(n * Scale * Scale, 0, (Abs(v[1]) + Abs(v[2]) + Abs(v[3])) * Scale)

\* the x and z components, in units of 1/Scale, of Vec3(0, 0, -1) rotated about
\* Y by 360/16 + i * 360/8 degrees, i = 0..7; the y component is 0
PlaneNormals ==
    << <<383, -924>>, <<924, -383>>, <<924, 383>>, <<383, 924>>,
       <<-383, 924>>, <<-924, 383>>, <<-924, -383>>, <<-383, -924>> >>

\* MaterialWithTransparency._get_sorting_planes, for a material whose bounds
\* are calculated: the planes as [normal, radius]; plane.point is
\* normal * radius
_get_sorting_planes(mat) ==
    LET max_radius == Max2(Distance0(mat._max), Distance0(mat._min))
    IN  [i \in 1..ALPHA_BLEND_FACE_SET_COUNT |->
            [normal |-> PlaneNormals[i], radius |-> max_radius]]

\* three times the face centre: the sum of the positions of its vertices
FaceSum(mat, face) ==
    LET p(j) == mat.vertices[face[j] + 1].position
    IN  [i \in 1..3 |-> p(1)[i] + p(2)[i] + p(3)[i]]

\* abs((face_center - plane.point) . plane.normal), in units of 1/(3 Scale)
FaceDist(mat, face, plane) ==
    LET c == FaceSum(mat, face)
    IN  Abs(c[1] * plane.normal[1] + c[3] * plane.normal[2] - 3 * plane.radius)

\* Python's tuple order on faces
FaceLess(a, b) ==
    \/ a[1] < b[1]
    \/ a[1] = b[1] /\ a[2] < b[2]
    \/ a[1] = b[1] /\ a[2] = b[2] /\ a[3] < b[3]

\* Python's order on the (dist, face) pairs that sorted() is given
PairLess(p, q) == p[1] < q[1] \/ (p[1] = q[1] /\ FaceLess(p[2], q[2]))

\* a sort that compares the keys alone and puts a pair in front of the pairs
\* of equal key
RECURSIVE InsertSorted_TiesFirst(_, _)
InsertSorted_TiesFirst(sorted, p) ==
    IF sorted = <<>> THEN <<p>>
    ELSE IF p[1] <= Head(sorted)[1] THEN <<p>> \o sorted
    ELSE <<Head(sorted)>> \o InsertSorted_TiesFirst(Tail(sorted), p)

\* insert p into the sorted list after every element not greater than it
RECURSIVE InsertSorted(_, _)
InsertSorted(sorted, p) ==
    IF sorted = <<>> THEN <<p>>
    ELSE IF PairLess(p, Head(sorted)) THEN <<p>> \o sorted
    ELSE <<Head(sorted)>> \o InsertSorted(Tail(sorted), p)

\* sorted(pairs): a stable sort under PairLess
RECURSIVE SortedPairs(_)
SortedPairs(pairs) ==
    IF pairs = <<>> THEN <<>>
    ELSE InsertSorted(SortedPairs(SubSeq(pairs, 1, Len(pairs) - 1)), pairs[Len(pairs)])

\* the indices appended for one plane
PlaneBlock(mat, plane) ==
    LET pairs == [i \in 1..Len(mat.faces) |->
                     <<FaceDist(mat, mat.faces[i], plane), mat.faces[i]>>]
        s == SortedPairs(pairs)
    IN  Flatten([i \in 1..Len(s) |-> s[i][2]])

\* a sorter that returns the length of one block
SortedBlocks_OneBlockCounted(m, sorting_planes) ==
    [err |-> OK, mat |-> m,
     indices |-> Flatten([i \in 1..Len(sorting_planes) |->
                             PlaneBlock(m, sorting_planes[i])]),
     count |-> m._inum]

\* _save_faces_alpha_blend once the planes are known
SortedBlocks(m, sorting_planes) ==
    [err |-> OK, mat |-> m,
     indices |-> Flatten([i \in 1..Len(sorting_planes) |->
                             PlaneBlock(m, sorting_planes[i])]),
     count |-> m._inum * Len(sorting_planes)]

\* _save_faces_alpha_blend given what calc_bounds returned
SortAfterBounds(mat, istart, cb) ==
    IF cb.err # OK
    THEN [err |-> cb.err, mat |-> mat, indices |-> <<>>, count |-> 0]
    ELSE IF \E i \in 1..Len(mat.faces) : \E j \in 1..3 :
                mat.faces[i][j] >= Len(mat.vertices)
    THEN [err |-> "IndexError",
          mat |-> [cb.mat EXCEPT !._inum = Len(mat.faces) * 3, !._istart = istart],
          indices |-> <<>>, count |-> 0]
    ELSE SortedBlocks([cb.mat EXCEPT !._inum = Len(mat.faces) * 3, !._istart = istart],
                      _get_sorting_planes(cb.mat))

\* MaterialWithTransparency._save_faces_alpha_blend:
\* [err, mat, indices (appended to index_buffer), count (returned)]
_save_faces_alpha_blend(mat, istart) ==
    SortAfterBounds(mat, istart, Material_calc_bounds(mat))

\* Material.save_faces
Material_save_faces(mat, istart) ==
    LET m == [mat EXCEPT !._inum = Len(mat.faces) * 3, !._istart = istart]
    IN  [err |-> OK, mat |-> m, indices |-> Flatten(mat.faces), count |-> m._inum]

\* a save_faces that writes the face sets a loaded material holds as they
\* are, and sorts only for a material that holds none
save_faces_WritingLoadedSets(mat, istart) ==
    IF mat.alpha_mode = ALPHA_BLEND /\ Len(mat.face_sets) = ALPHA_BLEND_FACE_SET_COUNT
    THEN [err |-> OK,
          mat |-> [mat EXCEPT !._inum = Len(mat.faces) * 3, !._istart = istart],
          indices |-> Flatten([b \in 1..Len(mat.face_sets) |->
                                  Flatten(mat.face_sets[b])]),
          count |-> Len(Flatten([b \in 1..Len(mat.face_sets) |->
                                    Flatten(mat.face_sets[b])]))]
    ELSE IF mat.alpha_mode = ALPHA_BLEND
    THEN _save_faces_alpha_blend(mat, istart)
    ELSE Material_save_faces(mat, istart)

\* MaterialWithTransparency.save_faces (a plain Material has alpha_mode NONE)
save_faces(mat, istart) ==
    IF mat.alpha_mode = ALPHA_BLEND
    THEN _save_faces_alpha_blend(mat, istart)
    ELSE Material_save_faces(mat, istart)

\* a save_vertices that leaves out the channels a vertex has no value for
RECURSIVE VertexCells_SkippingMissing(_, _, _)
VertexCells_SkippingMissing(vertex, attrs, i) ==
    IF i > Len(attrs) THEN [err |-> OK, cells |-> <<>>]
    ELSE IF attrs[i]._flag = UNUSED \/ Channel(vertex, attrs[i].decl_usage) = NoneVal
    THEN VertexCells_SkippingMissing(vertex, attrs, i + 1)
    ELSE LET rest == VertexCells_SkippingMissing(vertex, attrs, i + 1)
         IN  [rest EXCEPT !.cells = Float32Tuple(Channel(vertex, attrs[i].decl_usage)) \o @]

\* Material.save_vertices: [err, mat, cells (appended to vertex_buffer), count]
RECURSIVE VertexCells(_, _, _)
VertexCells(vertex, attrs, i) ==
    IF i > Len(attrs) THEN [err |-> OK, cells |-> <<>>]
    ELSE IF attrs[i]._flag = UNUSED THEN VertexCells(vertex, attrs, i + 1)
    ELSE LET value == Channel(vertex, attrs[i].decl_usage)
         IN  IF value = NoneVal THEN [err |-> "MissingVertexAttribute", cells |-> <<>>]
             ELSE LET rest == VertexCells(vertex, attrs, i + 1)
                  IN  [rest EXCEPT !.cells = Float32Tuple(value) \o @]

RECURSIVE VerticesCells(_, _, _)
VerticesCells(vertices, attrs, i) ==
    IF i > Len(vertices) THEN [err |-> OK, cells |-> <<>>]
    ELSE LET one == VertexCells(vertices[i], attrs, 1)
         IN  IF one.err # OK THEN one
             ELSE LET rest == VerticesCells(vertices, attrs, i + 1)
                  IN  [rest EXCEPT !.cells = one.cells \o @]

save_vertices(mat, vertex_attributes, vstart) ==
    LET m == [mat EXCEPT !._vstart = vstart, !._vnum = Len(mat.vertices)]
        r == VerticesCells(mat.vertices, vertex_attributes, 1)
    IN  [err |-> r.err, mat |-> m, cells |-> r.cells, count |-> m._vnum]

(* ------------------------------------------------------------------ *)
(* BF2VisibleMesh.export                                               *)
(* ------------------------------------------------------------------ *)

\* MeshHeader.save
MeshHeader_save(version) == <<D(0), D(version), D(0), D(0), D(0), B(0)>>

\* Geom.save for every geom (Lod.save writes nothing)
GeomFields(geoms) == [g \in 1..Len(geoms) |-> D(Len(geoms[g].lods))]

\* VertexAttribute.save
VertexAttribute_save(a) == <<W(a._flag), W(a._offset), W(a.decl_type), W(a.decl_usage)>>

\* the loop over vertex_attributes of export:
\* [attrs (as left in memory), rows (written), size (vertex_decl_size)]
RECURSIVE SaveAttrRows(_, _, _)
SaveAttrRows(attrs, i, size) ==
    IF i > Len(attrs) THEN [attrs |-> attrs, rows |-> <<>>, size |-> size]
    ELSE IF attrs[i]._flag = UNUSED THEN SaveAttrRows(attrs, i + 1, size)
    ELSE LET a == [attrs[i] EXCEPT !._offset = size, !._flag = USED]
             rest == SaveAttrRows([attrs EXCEPT ![i] = a], i + 1,
                                  size + StructSize(a.decl_type))
         IN  [rest EXCEPT !.rows = VertexAttribute_save(a) \o @]

\* the dummy attribute export appends
UnusedAttr == [VertexAttribute(DECL_UNUSED, 0) EXCEPT !._offset = 0, !._flag = UNUSED]

\* the count export writes in front of the declaration rows
AttrCountField(attrs) == D(Len(attrs) + 1)

\* the declaration table as export writes it: [attrs, fields, size]
SaveAttrTable(attrs) ==
    LET r == SaveAttrRows(attrs, 1, 0)
    IN  [attrs |-> r.attrs, size |-> r.size,
         fields |-> <<AttrCountField(attrs)>> \o r.rows \o VertexAttribute_save(UnusedAttr)]

\* a loop that hands every material the vertex offset it started from
SavedFaces_VertexOffsetKept(st, path, sv, has, sf) ==
    [err |-> sf.err,
     geoms |-> SetMat(st.geoms, path, sf.mat),
     vertex_buffer |-> st.vertex_buffer \o sv.cells,
     index_buffer |-> st.index_buffer \o sf.indices,
     vstart |-> st.vstart,
     istart |-> st.istart + sf.count,
     has_alpha_blend_material |-> has]

\* the state of the loop of export after save_faces returned sf
SavedFaces(st, path, sv, has, sf) ==
    [err |-> sf.err,
     geoms |-> SetMat(st.geoms, path, sf.mat),
     vertex_buffer |-> st.vertex_buffer \o sv.cells,
     index_buffer |-> st.index_buffer \o sf.indices,
     vstart |-> st.vstart + sv.count,
     istart |-> st.istart + sf.count,
     has_alpha_blend_material |-> has]

\* one material of the loop of export, given what save_vertices returned
SaveMaterial(st, path, sv, has) ==
    IF sv.err # OK
    THEN [st EXCEPT !.err = sv.err, !.has_alpha_blend_material = has,
                    !.geoms = SetMat(st.geoms, path, sv.mat)]
    ELSE SavedFaces(st, path, sv, has, save_faces(sv.mat, st.istart))

\* the loop of export over the materials, from the state
\* st = [err, geoms, vertex_buffer, index_buffer, vstart, istart,
\*       has_alpha_blend_material]
RECURSIVE SaveBuffers(_, _, _, _)
SaveBuffers(st, paths, i, attrs) ==
    IF i > Len(paths) \/ st.err # OK THEN st
    ELSE SaveBuffers(
            SaveMaterial(st, paths[i],
                         save_vertices(MatAt(st.geoms, paths[i]), attrs, st.vstart),
                         st.has_alpha_blend_material
                             \/ MatAt(st.geoms, paths[i]).alpha_mode = ALPHA_BLEND),
            paths, i + 1, attrs)

\* the sentinels Lod.save_parts_rigs starts the bounds from
InitMin == <<Inf, Inf, Inf>>
InitMax == <<0, 0, 0>>

\* the loop of Lod.save_parts_rigs over the materials: [err, lod]
RECURSIVE WidenBounds(_, _)
WidenBounds(lod, i) ==
    IF i > Len(lod.materials) THEN [err |-> OK, lod |-> lod]
    ELSE LET cb == Material_calc_bounds(lod.materials[i])
         IN  IF cb.err # OK THEN [err |-> cb.err, lod |-> lod]
             ELSE WidenBounds(
                     [lod EXCEPT
                        !.materials[i] = cb.mat,
                        !._min = [k \in 1..3 |-> IF cb.mat._min[k] < lod._min[k]
                                                 THEN cb.mat._min[k] ELSE lod._min[k]],
                        !._max = [k \in 1..3 |-> IF cb.mat._max[k] > lod._max[k]
                                                 THEN cb.mat._max[k] ELSE lod._max[k]]],
                     i + 1)

\* Lod.save_parts_rigs: [err, lod, fields]
save_parts_rigs(lod) ==
    LET r == WidenBounds([lod EXCEPT !._min = InitMin, !._max = InitMax], 1)
    IN  IF r.err # OK THEN [err |-> r.err, lod |-> r.lod, fields |-> <<>>]
        ELSE [err |-> OK, lod |-> r.lod,
              fields |-> Vec3Fields(r.lod._min) \o Vec3Fields(r.lod._max)]

\* the loop of export over the lods calling save_parts_rigs: [err, geoms, fields]
RECURSIVE SaveBounds(_, _, _)
SaveBounds(st, paths, i) ==
    IF i > Len(paths) \/ st.err # OK THEN st
    ELSE LET r == save_parts_rigs(LodAt(st.geoms, paths[i]))
         IN  SaveBounds([err |-> r.err,
                         geoms |-> SetLod(st.geoms, paths[i], r.lod),
                         fields |-> st.fields \o r.fields],
                        paths, i + 1)

\* a save that writes the reserved integers the material holds
ReservedFields_AsLoaded(mat) == <<D(mat._u4), D(mat._u5)>>

\* the two reserved dwords Material.save writes
ReservedFields(mat) == <<D(0), D(0)>>

\* Material.save / MaterialWithTransparency.save
Material_save(mat, transparent) ==
    (IF transparent THEN <<D(mat.alpha_mode)>> ELSE <<>>)
    \o <<S(mat.fxfile), S(mat.technique), D(Len(mat.maps))>>
    \o [i \in 1..Len(mat.maps) |-> S(mat.maps[i])]
    \o <<D(mat._vstart), D(mat._istart), D(mat._inum), D(mat._vnum)>>
    \o ReservedFields(mat)

\* Lod.save_materials
save_materials(lod, transparent) ==
    <<D(Len(lod.materials))>>
    \o Flatten([i \in 1..Len(lod.materials) |-> Material_save(lod.materials[i], transparent)])

\* an export that writes the count only when there is something to count
FaceSetCountFields_OnlyWhenBlending(transparent, has_alpha_blend_material) ==
    IF transparent /\ has_alpha_blend_material
    THEN <<D(ALPHA_BLEND_FACE_SET_COUNT)>>
    ELSE <<>>

\* the document-wide face-set count export writes after the index buffer
FaceSetCountFields(transparent, has_alpha_blend_material) ==
    IF transparent
    THEN IF has_alpha_blend_material THEN <<D(ALPHA_BLEND_FACE_SET_COUNT)>> ELSE <<D(0)>>
    ELSE <<>>

\* the sections of the file export has written when it ends
Sections(head, tab, bufs, data, fsc, bounds, materials) ==
    [head |-> head, table |-> tab.fields,
     decl |-> <<D(TRIANGLELIST), D(tab.size)>>,
     data |-> data, face_set_count |-> fsc,
     vertex_buffer |-> bufs.vertex_buffer, index_buffer |-> bufs.index_buffer,
     bounds |-> bounds, materials |-> materials]

SectionFields(s) ==
    s.head \o s.table \o s.decl \o s.data \o s.face_set_count \o s.bounds \o s.materials

\* what export leaves behind: the exception, the document, the file
Exported(e, doc, attrs, geoms, sections) ==
    [err |-> e,
     mesh |-> [doc EXCEPT !.vertex_attributes = attrs, !.geoms = geoms],
     file |-> SectionFields(sections),
     sections |-> sections]

\* the material tables of all lods
MaterialTables(geoms, transparent) ==
    Flatten([i \in 1..Len(LodPaths(geoms)) |->
        save_materials(LodAt(geoms, LodPaths(geoms)[i]), transparent)])

\* export from the bounds on
ExportBounds(doc, head, tab, bufs, data, fsc, bnd) ==
    IF bnd.err # OK
    THEN Exported(bnd.err, doc, tab.attrs, bnd.geoms,
                  Sections(head, tab, bufs, data, fsc, bnd.fields, <<>>))
    ELSE Exported(OK, doc, tab.attrs, bnd.geoms,
                  Sections(head, tab, bufs, data, fsc, bnd.fields,
                           MaterialTables(bnd.geoms, doc.transparent)))

\* the vertex count, the buffers and their lengths
DataFields(tab, bufs) ==
    <<D((4 * Len(bufs.vertex_buffer)) \div tab.size)>> \o Raw(bufs.vertex_buffer)
    \o <<D(Len(bufs.index_buffer))>> \o Words(bufs.index_buffer)

\* export once the buffers are built
ExportData(doc, head, tab, bufs) ==
    IF bufs.err # OK \/ tab.size = 0
    THEN Exported(IF bufs.err # OK THEN bufs.err ELSE "ZeroDivisionError",
                  doc, tab.attrs, bufs.geoms,
                  Sections(head, tab, bufs, <<>>, <<>>, <<>>, <<>>))
    ELSE ExportBounds(doc, head, tab, bufs, DataFields(tab, bufs),
                      FaceSetCountFields(doc.transparent, bufs.has_alpha_blend_material),
                      SaveBounds([err |-> OK, geoms |-> bufs.geoms, fields |-> <<>>],
                                 LodPaths(doc.geoms), 1))

\* export once the declaration table is written
ExportBuffers(doc, head, tab) ==
    ExportData(doc, head, tab,
               SaveBuffers([err |-> OK, geoms |-> doc.geoms,
                            vertex_buffer |-> <<>>, index_buffer |-> <<>>,
                            vstart |-> 0, istart |-> 0,
                            has_alpha_blend_material |-> FALSE],
                           MatPaths(doc.geoms), 1, tab.attrs))

\* BF2VisibleMesh.export: [err, mesh (the document as export leaves it),
\* file (the fields written), sections (of the file)]
export(doc) ==
    ExportBuffers(doc,
                  MeshHeader_save(doc._VERSION)
                  \o <<D(Len(doc.geoms))>> \o GeomFields(doc.geoms),
                  SaveAttrTable(doc.vertex_attributes))

(* ------------------------------------------------------------------ *)
(* BF2VisibleMesh.load                                                 *)
(* ------------------------------------------------------------------ *)

\* FileUtils reads: the fields of the given kinds from position pos on,
\* [err, vals, pos]
RECURSIVE ReadN(_, _, _)
ReadN(f, pos, kinds) ==
    IF kinds = <<>> THEN [err |-> OK, vals |-> <<>>, pos |-> pos]
    ELSE IF pos > Len(f) THEN [err |-> "EOF", vals |-> <<>>, pos |-> pos]
    ELSE IF f[pos].k # Head(kinds) THEN [err |-> "Misparse", vals |-> <<>>, pos |-> pos]
    ELSE LET rest == ReadN(f, pos + 1, Tail(kinds))
         IN  [rest EXCEPT !.vals = <<f[pos].v>> \o @]

Kinds(k, n) == [i \in 1..n |-> k]

\* f.read_raw(n) / f.read_word(count=n): one buffer of exactly len elements,
\* nothing when len is 0
ReadBuffer(f, pos, kind, len) ==
    IF len = 0 THEN [err |-> OK, vals |-> <<>>, pos |-> pos]
    ELSE LET r == ReadN(f, pos, <<kind>>)
         IN  IF r.err # OK THEN r
             ELSE IF Len(r.vals[1]) # len THEN [r EXCEPT !.err = "Misparse", !.pos = pos]
             ELSE [r EXCEPT !.vals = r.vals[1]]

\* the state of a load: the error raised (OK while none), the position in the
\* file, the sections read so far, and the locals and attributes of load
LoadStart ==
    [err |-> OK, pos |-> 1, sections |-> <<>>, version |-> NoneInt,
     geoms |-> <<>>, vertex_attributes |-> <<>>, vertex_decl_size |-> NoneInt,
     vertex_buffer |-> <<>>, index_buffer |-> <<>>, alpha_blend_indexnum |-> NoneInt]

Fail(c, e, pos) == [c EXCEPT !.err = e, !.pos = pos]

\* MeshHeader.load
MeshHeader_load(f, c) ==
    LET r == ReadN(f, c.pos, <<"d", "d", "d", "d", "d", "b">>)
        c1 == [c EXCEPT !.sections = Append(@, "header")]
    IN  IF r.err # OK THEN Fail(c1, r.err, r.pos)
        ELSE [c1 EXCEPT !.pos = r.pos, !.version = r.vals[2]]

\* load_n_elems(f, Geom, count): Geom.load reads the number of lods, Lod.load
\* reads nothing
LoadGeoms(f, c) ==
    LET n == ReadN(f, c.pos, <<"d">>)
        c1 == [c EXCEPT !.sections = Append(@, "geoms")]
    IN  IF n.err # OK THEN Fail(c1, n.err, n.pos)
        ELSE LET r == ReadN(f, n.pos, Kinds("d", n.vals[1]))
             IN  IF r.err # OK THEN Fail(c1, r.err, r.pos)
                 ELSE [c1 EXCEPT !.pos = r.pos,
                          !.geoms = [g \in 1..Len(r.vals) |->
                                        Geom([l \in 1..r.vals[g] |-> Lod(<<>>)])]]

\* VertexAttribute.load for count rows: [err, attrs, pos]
RECURSIVE LoadAttrRows(_, _, _)
LoadAttrRows(f, pos, count) ==
    IF count = 0 THEN [err |-> OK, attrs |-> <<>>, pos |-> pos]
    ELSE LET r == ReadN(f, pos, <<"w", "w", "w", "w">>)
         IN  IF r.err # OK THEN [err |-> r.err, attrs |-> <<>>, pos |-> r.pos]
             ELSE IF r.vals[3] \notin D3DDECLTYPE \/ r.vals[4] \notin D3DDECLUSAGE
             THEN [err |-> "ValueError", attrs |-> <<>>, pos |-> r.pos]
             ELSE LET a == [_flag |-> r.vals[1], _offset |-> r.vals[2],
                            decl_type |-> r.vals[3], decl_usage |-> r.vals[4]]
                      rest == LoadAttrRows(f, r.pos, count - 1)
                  IN  [rest EXCEPT !.attrs = <<a>> \o @]

\* the rows load keeps of the rows it read: the last one is dropped when it
\* is flagged unused
KeptAttrs(attrs) ==
    IF attrs[Len(attrs)]._flag = UNUSED THEN SubSeq(attrs, 1, Len(attrs) - 1) ELSE attrs

\* the declaration table part of load
LoadAttrTable(f, c) ==
    LET n == ReadN(f, c.pos, <<"d">>)
        c1 == [c EXCEPT !.sections = Append(@, "table")]
    IN  IF n.err # OK THEN Fail(c1, n.err, n.pos)
        ELSE LET r == LoadAttrRows(f, n.pos, n.vals[1])
             IN  IF r.err # OK THEN Fail(c1, r.err, r.pos)
                 ELSE IF r.attrs = <<>> THEN Fail(c1, "IndexError", r.pos)
                 ELSE [c1 EXCEPT !.pos = r.pos, !.vertex_attributes = KeptAttrs(r.attrs)]

\* a load that takes triangle strips as well
SupportedPrimitives_WithStrip == {TRIANGLELIST, TRIANGLESTRIP}

\* the primitive types load accepts
SupportedPrimitives == {TRIANGLELIST}

\* reading and checking the primitive type
LoadPrimitiveType(f, c) ==
    LET r == ReadN(f, c.pos, <<"d">>)
        c1 == [c EXCEPT !.sections = Append(@, "primitive_type")]
    IN  IF r.err # OK THEN Fail(c1, r.err, r.pos)
        ELSE IF r.vals[1] \notin D3DPRIMITIVETYPE THEN Fail(c1, "ValueError", r.pos)
        ELSE IF r.vals[1] \notin SupportedPrimitives
        THEN Fail(c1, "UnsupportedPrimitiveType", r.pos)
        ELSE [c1 EXCEPT !.pos = r.pos]

\* vertex_decl_size, the vertex buffer and the index buffer
LoadBuffers(f, c) ==
    LET s == ReadN(f, c.pos, <<"d", "d">>)
        c1 == [c EXCEPT !.sections = @ \o <<"vertex_decl_size", "vertex_buffer">>]
    IN  IF s.err # OK THEN Fail(c1, s.err, s.pos)
        ELSE LET vb == ReadBuffer(f, s.pos, "raw", (s.vals[1] * s.vals[2]) \div 4)
             IN  IF vb.err # OK THEN Fail(c1, vb.err, vb.pos)
                 ELSE LET c2 == [c1 EXCEPT !.sections = Append(@, "index_buffer"),
                                           !.vertex_decl_size = s.vals[1],
                                           !.vertex_buffer = vb.vals]
                          n == ReadN(f, vb.pos, <<"d">>)
                      IN  IF n.err # OK THEN Fail(c2, n.err, n.pos)
                          ELSE LET ib == ReadBuffer(f, n.pos, "words", n.vals[1])
                               IN  IF ib.err # OK THEN Fail(c2, ib.err, ib.pos)
                                   ELSE [c2 EXCEPT !.pos = ib.pos, !.index_buffer = ib.vals]

\* whether load reads the document-wide face-set count
ReadsFaceSetCount(transparent) == transparent

\* alpha_blend_indexnum
LoadFaceSetCount(f, c, transparent) ==
    IF ~ReadsFaceSetCount(transparent) THEN c
    ELSE LET r == ReadN(f, c.pos, <<"d">>)
             c1 == [c EXCEPT !.sections = Append(@, "face_set_count")]
         IN  IF r.err # OK THEN Fail(c1, r.err, r.pos)
             ELSE [c1 EXCEPT !.pos = r.pos, !.alpha_blend_indexnum = r.vals[1]]

\* the number of floats Lod.load_parts_rigs reads
PartsRigsFloats(version) == IF version <= LEGACY_VERSION THEN 9 ELSE 6

\* Lod.load_parts_rigs for every lod
RECURSIVE LoadBounds(_, _, _, _)
LoadBounds(f, c, paths, i) ==
    IF i > Len(paths) \/ c.err # OK THEN c
    ELSE LET r == ReadN(f, c.pos, Kinds("f", PartsRigsFloats(c.version)))
         IN  IF r.err # OK THEN Fail(c, r.err, r.pos)
             ELSE LoadBounds(f,
                     [c EXCEPT !.pos = r.pos,
                               !.geoms = SetLod(@, paths[i],
                                   [LodAt(c.geoms, paths[i]) EXCEPT
                                       !._min = SubSeq(r.vals, 1, 3),
                                       !._max = SubSeq(r.vals, 4, 6)])],
                     paths, i + 1)

\* Material.load / MaterialWithTransparency.load: [err, mat, pos]
Material_load(f, pos, transparent, alpha_blend_indexnum) ==
    LET a == IF transparent THEN ReadN(f, pos, <<"d">>)
             ELSE [err |-> OK, vals |-> <<NONE>>, pos |-> pos]
        bad(e, p) == [err |-> e, mat |-> Material(NONE, "", "", <<>>, <<>>, <<>>), pos |-> p]
    IN  IF a.err # OK THEN bad(a.err, a.pos)
        ELSE IF a.vals[1] \notin AlphaMode THEN bad("ValueError", a.pos)
        ELSE LET h == ReadN(f, a.pos, <<"s", "s", "d">>)
             IN  IF h.err # OK THEN bad(h.err, h.pos)
                 ELSE LET maps == ReadN(f, h.pos, Kinds("s", h.vals[3]))
                      IN  IF maps.err # OK THEN bad(maps.err, maps.pos)
                          ELSE LET t == ReadN(f, maps.pos, Kinds("d", 6))
                               IN  IF t.err # OK THEN bad(t.err, t.pos)
                                   ELSE [err |-> OK, pos |-> t.pos,
                                         mat |-> [Material(a.vals[1], h.vals[1], h.vals[2],
                                                           maps.vals, <<>>, <<>>)
                                                  EXCEPT !._alpha_blend_indexnum =
                                                             IF transparent
                                                             THEN alpha_blend_indexnum
                                                             ELSE NoneInt,
                                                         !._vstart = t.vals[1],
                                                         !._istart = t.vals[2],
                                                         !._inum = t.vals[3],
                                                         !._vnum = t.vals[4],
                                                         !._u4 = t.vals[5],
                                                         !._u5 = t.vals[6]]]

\* load_n_elems(f, _MATERIAL_TYPE, count): [err, mats, pos]
RECURSIVE LoadMaterialRecords(_, _, _, _, _)
LoadMaterialRecords(f, pos, count, transparent, abnum) ==
    IF count = 0 THEN [err |-> OK, mats |-> <<>>, pos |-> pos]
    ELSE LET r == Material_load(f, pos, transparent, abnum)
         IN  IF r.err # OK THEN [err |-> r.err, mats |-> <<>>, pos |-> r.pos]
             ELSE LET rest == LoadMaterialRecords(f, r.pos, count - 1, transparent, abnum)
                  IN  [rest EXCEPT !.mats = <<r.mat>> \o @]

\* the attributes of one vertex, unpacked from the cells of its record:
\* [err, vertex]
RECURSIVE LoadVertex(_, _, _, _, _)
LoadVertex(vertex, i, vertex_decl_size, attrs, vertex_buffer) ==
    IF attrs = <<>> THEN [err |-> OK, vertex |-> vertex]
    ELSE LET a == Head(attrs)
         IN  IF a._flag = UNUSED
             THEN LoadVertex(vertex, i, vertex_decl_size, Tail(attrs), vertex_buffer)
             ELSE IF StructCells(a.decl_type) < 0 THEN [err |-> "KeyError", vertex |-> vertex]
             ELSE LET vstart == (i * vertex_decl_size + a._offset) \div 4
                      n == StructCells(a.decl_type)
                  IN  IF vstart + n > Len(vertex_buffer)
                      THEN [err |-> "struct.error", vertex |-> vertex]
                      ELSE LoadVertex(
                              SetChannel(vertex, a.decl_usage,
                                         SubSeq(vertex_buffer, vstart + 1, vstart + n)),
                              i, vertex_decl_size, Tail(attrs), vertex_buffer)

\* Material.load_vertices: [err, mat]
RECURSIVE LoadVerticesFrom(_, _, _, _, _)
LoadVerticesFrom(mat, i, vertex_decl_size, attrs, vertex_buffer) ==
    IF i >= mat._vstart + mat._vnum THEN [err |-> OK, mat |-> mat]
    ELSE LET v == LoadVertex(Vertex(NoneVal, NoneVal), i, vertex_decl_size, attrs,
                             vertex_buffer)
         IN  IF v.err # OK THEN [err |-> v.err, mat |-> mat]
             ELSE LoadVerticesFrom([mat EXCEPT !.vertices = Append(@, v.vertex)],
                                   i + 1, vertex_decl_size, attrs, vertex_buffer)

load_vertices(mat, vertex_decl_size, attrs, vertex_buffer) ==
    LoadVerticesFrom([mat EXCEPT !.vertices = <<>>], mat._vstart,
                     vertex_decl_size, attrs, vertex_buffer)

\* the faces of the index range [istart, istart + inum): [err, faces]
RECURSIVE FacesFrom(_, _, _)
FacesFrom(index_buffer, i, end) ==
    IF i >= end THEN [err |-> OK, faces |-> <<>>]
    ELSE IF i + 3 > Len(index_buffer) THEN [err |-> "IndexError", faces |-> <<>>]
    ELSE LET rest == FacesFrom(index_buffer, i + 3, end)
         IN  [rest EXCEPT !.faces =
                 << <<index_buffer[i + 1], index_buffer[i + 2], index_buffer[i + 3]>> >> \o @]

\* a load_faces that takes the faces from the start of the index buffer
Material_load_faces_FromZero(mat, index_buffer) ==
    LET r == FacesFrom(index_buffer, 0, mat._inum)
    IN  [err |-> r.err, mat |-> [mat EXCEPT !.faces = r.faces]]

\* Material.load_faces: [err, mat]
Material_load_faces(mat, index_buffer) ==
    LET r == FacesFrom(index_buffer, mat._istart, mat._istart + mat._inum)
    IN  [err |-> r.err, mat |-> [mat EXCEPT !.faces = r.faces]]

\* a load that takes the 8 blocks export writes, whatever the file says
RECURSIVE FaceSetsFrom_EightBlocks(_, _, _)
FaceSetsFrom_EightBlocks(mat, index_buffer, i) ==
    IF i >= ALPHA_BLEND_FACE_SET_COUNT THEN [err |-> OK, sets |-> <<>>]
    ELSE LET istart == mat._istart + i * mat._inum
             r == FacesFrom(index_buffer, istart, istart + mat._inum)
         IN  IF r.err # OK THEN [err |-> r.err, sets |-> <<>>]
             ELSE LET rest == FaceSetsFrom_EightBlocks(mat, index_buffer, i + 1)
                  IN  [rest EXCEPT !.sets = <<r.faces>> \o @]

\* the face sets of an ALPHA_BLEND material: [err, sets]
RECURSIVE FaceSetsFrom(_, _, _)
FaceSetsFrom(mat, index_buffer, i) ==
    IF i >= mat._alpha_blend_indexnum THEN [err |-> OK, sets |-> <<>>]
    ELSE LET istart == mat._istart + i * mat._inum
             r == FacesFrom(index_buffer, istart, istart + mat._inum)
         IN  IF r.err # OK THEN [err |-> r.err, sets |-> <<>>]
             ELSE LET rest == FaceSetsFrom(mat, index_buffer, i + 1)
                  IN  [rest EXCEPT !.sets = <<r.faces>> \o @]

\* MaterialWithTransparency.load_faces: [err, mat]
load_faces(mat, index_buffer) ==
    IF mat.alpha_mode = ALPHA_BLEND
    THEN LET r == FaceSetsFrom(mat, index_buffer, 0)
         IN  IF r.err # OK THEN [err |-> r.err, mat |-> mat]
             ELSE IF r.sets = <<>>
             THEN [err |-> "IndexError", mat |-> [mat EXCEPT !.face_sets = r.sets]]
             ELSE [err |-> OK,
                   mat |-> [mat EXCEPT !.face_sets = r.sets, !.faces = r.sets[1]]]
    ELSE Material_load_faces(mat, index_buffer)

\* load_vertices and load_faces for the materials of one lod: [err, mats]
RECURSIVE DecodeMaterials(_, _, _)
DecodeMaterials(mats, i, c) ==
    IF i > Len(mats) THEN [err |-> OK, mats |-> mats]
    ELSE LET v == load_vertices(mats[i], c.vertex_decl_size, c.vertex_attributes,
                                c.vertex_buffer)
         IN  IF v.err # OK THEN [err |-> v.err, mats |-> mats]
             ELSE LET fc == load_faces(v.mat, c.index_buffer)
                  IN  IF fc.err # OK THEN [err |-> fc.err, mats |-> mats]
                      ELSE DecodeMaterials([mats EXCEPT ![i] = fc.mat], i + 1, c)

\* Lod.load_materials and the decoding of its materials, for every lod
RECURSIVE LoadMaterials(_, _, _, _, _)
LoadMaterials(f, c, paths, i, transparent) ==
    IF i > Len(paths) \/ c.err # OK THEN c
    ELSE LET n == ReadN(f, c.pos, <<"d">>)
         IN  IF n.err # OK THEN Fail(c, n.err, n.pos)
             ELSE LET r == LoadMaterialRecords(f, n.pos, n.vals[1], transparent,
                                               c.alpha_blend_indexnum)
                  IN  IF r.err # OK THEN Fail(c, r.err, r.pos)
                      ELSE LET d == DecodeMaterials(r.mats, 1, c)
                           IN  IF d.err # OK THEN Fail(c, d.err, r.pos)
                               ELSE LoadMaterials(f,
                                       [c EXCEPT !.pos = r.pos,
                                                 !.geoms = SetLod(@, paths[i],
                                                     [LodAt(c.geoms, paths[i]) EXCEPT
                                                         !.materials = d.mats])],
                                       paths, i + 1, transparent)

\* one part of load, skipped once an exception was raised
AfterHeader(f, c) == IF c.err # OK THEN c ELSE LoadGeoms(f, c)
AfterGeoms(f, c) == IF c.err # OK THEN c ELSE LoadAttrTable(f, c)
AfterAttrTable(f, c) == IF c.err # OK THEN c ELSE LoadPrimitiveType(f, c)
AfterPrimitiveType(f, c) == IF c.err # OK THEN c ELSE LoadBuffers(f, c)
AfterBuffers(f, c, transparent) ==
    IF c.err # OK THEN c ELSE LoadFaceSetCount(f, c, transparent)
AfterFaceSetCount(f, c) ==
    IF c.err # OK THEN c
    ELSE LoadBounds(f, [c EXCEPT !.sections = Append(@, "bounds")], LodPaths(c.geoms), 1)
AfterBounds(f, c, transparent) ==
    IF c.err # OK THEN c
    ELSE LoadMaterials(f, [c EXCEPT !.sections = Append(@, "materials")],
                       LodPaths(c.geoms), 1, transparent)

\* BF2VisibleMesh.load of the file f by a document class that is
\* transparency-capable or not: the final load state
load(f, transparent) ==
    AfterBounds(f,
        AfterFaceSetCount(f,
            AfterBuffers(f,
                AfterPrimitiveType(f,
                    AfterAttrTable(f,
                        AfterGeoms(f,
                            AfterHeader(f,
                                MeshHeader_load(f, LoadStart))))),
                transparent)),
        transparent)

\* a construction that only complains about reads past the end
SizeCheck_NoSurplus(f, c) ==
    IF ByteSize(f) < ByteSize(SubSeq(f, 1, c.pos - 1)) THEN "CorruptFile" ELSE OK

\* the exception BF2VisibleMesh.__init__ raises when the file was not
\* consumed exactly
SizeCheck(f, c) ==
    IF ByteSize(f) # ByteSize(SubSeq(f, 1, c.pos - 1)) THEN "CorruptFile" ELSE OK

\* what BF2VisibleMesh.__init__ makes of the final load state c
Constructed(f, transparent, version, c, e) ==
    [err |-> e,
     mesh |-> IF e = OK
              THEN BF2VisibleMesh(transparent, version, c.vertex_attributes, c.geoms)
              ELSE NoMesh,
     consumed |-> ByteSize(SubSeq(f, 1, c.pos - 1)),
     sections |-> c.sections,
     alpha_blend_indexnum |-> c.alpha_blend_indexnum]

\* the exception of a construction: that of load, else that of the size check
ConstructErr(f, c) == IF c.err # OK THEN c.err ELSE SizeCheck(f, c)

Checked(f, transparent, version, c) ==
    Constructed(f, transparent, version, c, ConstructErr(f, c))

\* BF2VisibleMesh.__init__ with a file: [err, mesh, consumed (bytes read by
\* load), sections (read by load), alpha_blend_indexnum]
Construct(f, transparent, version) ==
    Checked(f, transparent, version, load(f, transparent))

(* ------------------------------------------------------------------ *)
(* The documents the model starts from                                 *)
(* ------------------------------------------------------------------ *)

\* the smallest magnitude packing changes, and the packed float below it
BigVal == Pow2(MantissaBits) + 1
BigEven == Pow2(MantissaBits)

UV == <<0, 1>>

\* the vertex and face lists of the materials: no geometry; the triangle of
\* the spec's scenario; two faces over the same vertices, at negative
\* coordinates; three faces at different distances from the planes; two
\* faces whose vertices differ by less than packing keeps
NoGeometry == [vertices |-> <<>>, faces |-> <<>>, maps |-> <<>>]
Triangle ==
    [vertices |-> <<Vertex(<<0, 0, 0>>, UV), Vertex(<<1, 0, 0>>, UV),
                    Vertex(<<0, 1, 0>>, UV)>>,
     faces |-> << <<0, 1, 2>> >>, maps |-> <<"c.dds", "n.dds">>]
Negative ==
    [vertices |-> <<Vertex(<<-1, -2, -1>>, UV), Vertex(<<-2, -1, -3>>, UV),
                    Vertex(<<-1, -1, -2>>, UV)>>,
     faces |-> << <<2, 1, 0>>, <<0, 1, 2>> >>, maps |-> <<"c.dds">>]
Spread ==
    [vertices |-> <<Vertex(<<-1, 0, 2>>, NoneVal), Vertex(<<0, 0, 0>>, NoneVal),
                    Vertex(<<-1, 0, 0>>, NoneVal), Vertex(<<0, 0, 1>>, NoneVal)>>,
     faces |-> << <<1, 2, 3>>, <<0, 0, 0>>, <<0, 1, 3>> >>, maps |-> <<>>]
Unpackable ==
    [vertices |-> <<Vertex(<<BigEven, 0, 0>>, UV), Vertex(<<BigVal, 0, 0>>, UV)>>,
     faces |-> << <<0, 0, 0>>, <<1, 1, 1>> >>, maps |-> <<>>]

NewMaterial(alpha_mode, g) ==
    Material(alpha_mode, "shader.fx", "tech", g.maps, g.vertices, g.faces)

\* the materials of a plain document and of a transparency-capable one
PlainMaterials ==
    {NewMaterial(NONE, g) : g \in {NoGeometry, Triangle, Negative, Spread, Unpackable}}
TransparentMaterials ==
    PlainMaterials
    \cup {NewMaterial(ALPHA_BLEND, g) :
             g \in {NoGeometry, Triangle, Negative, Spread, Unpackable}}
    \cup {NewMaterial(ALPHA_TEST, Triangle)}

\* the trees: per geom, the number of materials of each of its lods
Shapes ==
    { <<>>, << <<0>> >>, << <<1>> >>, << <<2>> >>, << <<1>>, <<0, 1>> >> }

RECURSIVE Sum(_)
Sum(s) == IF s = <<>> THEN 0 ELSE Head(s) + Sum(Tail(s))

\* the tree of shape sh over the materials ms, taken in loop order
Tree(sh, ms) ==
    [g \in 1..Len(sh) |->
        Geom([l \in 1..Len(sh[g]) |->
            LET before == Sum(Flatten(SubSeq(sh, 1, g - 1))) + Sum(SubSeq(sh[g], 1, l - 1))
            IN  Lod([m \in 1..sh[g][l] |-> ms[before + m]])])]

\* the declaration tables, as add_vert_attr builds them
Tables ==
    { <<VertexAttribute(FLOAT3, POSITION)>>,
      <<VertexAttribute(FLOAT3, POSITION), VertexAttribute(FLOAT2, TEXCOORD0)>> }

\* _VERSION of the document classes
Versions == {LEGACY_VERSION, 11}

MaterialsOf(transparent) ==
    IF transparent THEN TransparentMaterials ELSE PlainMaterials

Docs ==
    UNION { { BF2VisibleMesh(tr, ver, tab, Tree(sh, ms)) :
                ver \in Versions, tab \in Tables, sh \in Shapes,
                ms \in [1..2 -> MaterialsOf(tr)] } : tr \in BOOLEAN }

(* ------------------------------------------------------------------ *)
(* The state machine                                                   *)
(* ------------------------------------------------------------------ *)

NoSections ==
    [head |-> <<>>, table |-> <<>>, decl |-> <<>>, data |-> <<>>,
     face_set_count |-> <<>>, vertex_buffer |-> <<>>, index_buffer |-> <<>>,
     bounds |-> <<>>, materials |-> <<>>]

NotLoaded == [bytes |-> 0, sections |-> <<>>, alpha_blend_indexnum |-> NoneInt]

\* the add-on registered: register() adds nothing to the editor menu, and no
\* scene has the flag
Scenes == 1..NumScenes
NoSetup ==
    /\ VIEW3D_MT_editor_menus = 0
    /\ bf2_is_setup = [sc \in Scenes |-> FALSE]
    /\ controllers_step = [sc \in Scenes |-> 0]
    /\ dialog = FALSE
    /\ reported = FALSE

\* a document built in memory, nothing written yet
Init ==
    /\ mesh \in Docs
    /\ doc0 = mesh
    /\ prev = NoMesh
    /\ file = <<>>
    /\ err = OK
    /\ pc = "built"
    /\ gen = 0
    /\ tampered = FALSE
    /\ consumed = NotLoaded
    /\ exp = NoSections
    /\ NoSetup

\* the state export leaves, r being what it returned
ExportDone(r) ==
    /\ prev' = mesh
    /\ mesh' = r.mesh
    /\ file' = r.file
    /\ err' = r.err
    /\ exp' = r.sections
    /\ pc' = IF r.err = OK THEN "exported" ELSE "export_failed"
    /\ gen' = gen + 1
    /\ UNCHANGED <<doc0, tampered, consumed>>
    /\ UNCHANGED setup_vars

\* mesh.export(path): prev keeps the document as it was when export began
Export ==
    /\ pc \in {"built", "loaded"}
    /\ gen < MaxRoundTrips
    /\ ExportDone(export(mesh))

\* the state a construction leaves, r being what it returned
LoadDone(r) ==
    /\ mesh' = r.mesh
    /\ err' = r.err
    /\ consumed' = [bytes |-> r.consumed, sections |-> r.sections,
                    alpha_blend_indexnum |-> r.alpha_blend_indexnum]
    /\ pc' = IF r.err = OK THEN "loaded" ELSE "load_failed"
    /\ UNCHANGED <<doc0, prev, file, gen, tampered, exp>>
    /\ UNCHANGED setup_vars

\* mesh = type(mesh)(file): a document of the same class constructed from
\* the file
Load ==
    /\ pc = "exported"
    /\ LoadDone(Construct(file, mesh.transparent, mesh._VERSION))

\* the position of the primitive-type field in an exported file
PrimitiveTypePos == Len(exp.head) + Len(exp.table) + 1

\* another tool changes the first exported file before it is loaded:
\* one byte is appended
AppendByte ==
    /\ pc = "exported" /\ gen = 1 /\ ~tampered
    /\ file' = Append(file, B(0))
    /\ tampered' = TRUE
    /\ UNCHANGED <<mesh, doc0, prev, err, pc, gen, consumed, exp>>
    /\ UNCHANGED setup_vars

\* the primitive type is set to another code
SetPrimitiveType ==
    /\ pc = "exported" /\ gen = 1 /\ ~tampered
    /\ \E p \in D3DPRIMITIVETYPE \ {TRIANGLELIST} :
          file' = [file EXCEPT ![PrimitiveTypePos] = D(p)]
    /\ tampered' = TRUE
    /\ UNCHANGED <<mesh, doc0, prev, err, pc, gen, consumed, exp>>
    /\ UNCHANGED setup_vars

\* the reserved integers of the last material are set
SetReserved ==
    /\ pc = "exported" /\ gen = 1 /\ ~tampered
    /\ LodPaths(mesh.geoms) # <<>>
    /\ LET lp == LodPaths(mesh.geoms)
       IN  LodAt(mesh.geoms, lp[Len(lp)]).materials # <<>>
    /\ file' = [file EXCEPT ![Len(file) - 1] = D(7), ![Len(file)] = D(9)]
    /\ tampered' = TRUE
    /\ UNCHANGED <<mesh, doc0, prev, err, pc, gen, consumed, exp>>
    /\ UNCHANGED setup_vars

\* a declaration row is flagged unused
MarkUnused ==
    /\ pc = "exported" /\ gen = 1 /\ ~tampered
    /\ \E k \in 1..((Len(exp.table) - 5) \div 4) :
          file' = [file EXCEPT ![Len(exp.head) + 1 + 4 * (k - 1) + 1] = W(UNUSED)]
    /\ tampered' = TRUE
    /\ UNCHANGED <<mesh, doc0, prev, err, pc, gen, consumed, exp>>
    /\ UNCHANGED setup_vars

\* the record of the last material is made to share the vertices at the
\* start of the vertex buffer
SetVertexStart ==
    /\ pc = "exported" /\ gen = 1 /\ ~tampered
    /\ MatPaths(mesh.geoms) # <<>>
    /\ LET lp == LodPaths(mesh.geoms)
       IN  LodAt(mesh.geoms, lp[Len(lp)]).materials # <<>>
    /\ file[Len(file) - 5].v > 0
    /\ file' = [file EXCEPT ![Len(file) - 5] = D(0)]
    /\ tampered' = TRUE
    /\ UNCHANGED <<mesh, doc0, prev, err, pc, gen, consumed, exp>>
    /\ UNCHANGED setup_vars

\* the record of the last material is given one vertex less
SetVertexCount ==
    /\ pc = "exported" /\ gen = 1 /\ ~tampered
    /\ MatPaths(mesh.geoms) # <<>>
    /\ LET lp == LodPaths(mesh.geoms)
       IN  LodAt(mesh.geoms, lp[Len(lp)]).materials # <<>>
    /\ file[Len(file) - 2].v > 0
    /\ file' = [file EXCEPT ![Len(file) - 2] = D(@.v - 1)]
    /\ tampered' = TRUE
    /\ UNCHANGED <<mesh, doc0, prev, err, pc, gen, consumed, exp>>
    /\ UNCHANGED setup_vars

\* the document-wide face-set count is set to another number
SetFaceSetCount ==
    /\ pc = "exported" /\ gen = 1 /\ ~tampered
    /\ exp.face_set_count # <<>>
    /\ \E n \in {0, 3} \ {exp.face_set_count[1].v} :
          file' = [file EXCEPT ![Len(exp.head) + Len(exp.table) + Len(exp.decl)
                                 + Len(exp.data) + 1] = D(n)]
    /\ tampered' = TRUE
    /\ UNCHANGED <<mesh, doc0, prev, err, pc, gen, consumed, exp>>
    /\ UNCHANGED setup_vars

Next ==
    \/ Export
    \/ Load
    \/ AppendByte
    \/ SetPrimitiveType
    \/ SetReserved
    \/ MarkUnused
    \/ SetVertexStart
    \/ SetVertexCount
    \/ SetFaceSetCount

Spec == Init /\ [][Next]_vars

(* ------------------------------------------------------------------ *)
(* Controller-setup mode (operators/ops_view_3d.py)                    *)
(* ------------------------------------------------------------------ *)

\* _bf2_is_setup(context), context.scene being sc
_bf2_is_setup(sc) == bf2_is_setup[sc]

\* bpy's Menu.remove: takes one occurrence of the function out of the menu,
\* and does nothing when there is none
MenuRemoved(n) == IF n > 0 THEN n - 1 ELSE 0

\* _bf2_setup_started(context)
_bf2_setup_started(sc) ==
    /\ bf2_is_setup' = [bf2_is_setup EXCEPT ![sc] = TRUE]
    /\ VIEW3D_MT_editor_menus' = VIEW3D_MT_editor_menus + 1

\* _bf2_setup_finished(context)
_bf2_setup_finished(sc) ==
    /\ bf2_is_setup' = [bf2_is_setup EXCEPT ![sc] = FALSE]
    /\ VIEW3D_MT_editor_menus' = MenuRemoved(VIEW3D_MT_editor_menus)

\* IMPORT_OT_bf2_anim_ctrl_setup_begin.invoke: the dialog opens
setup_begin_invoke ==
    /\ ~dialog
    /\ dialog' = TRUE
    /\ UNCHANGED <<VIEW3D_MT_editor_menus, bf2_is_setup, controllers_step, reported>>
    /\ UNCHANGED codec_vars

\* IMPORT_OT_bf2_anim_ctrl_setup_begin.cancel: the operator is invoked
\* again, which opens the dialog again
setup_begin_cancel ==
    /\ dialog
    /\ dialog' = TRUE
    /\ reported' = FALSE
    /\ UNCHANGED <<VIEW3D_MT_editor_menus, bf2_is_setup, controllers_step>>
    /\ UNCHANGED codec_vars

\* IMPORT_OT_bf2_anim_ctrl_setup_begin.execute in the scene sc, from the
\* dialog or called directly; setup_controllers(context, step=1) returns or
\* raises
setup_begin_execute ==
    /\ VIEW3D_MT_editor_menus < MaxMenuEntries
    /\ \E sc \in Scenes : \E raises \in BOOLEAN :
          IF raises
          THEN /\ reported' = TRUE
               /\ UNCHANGED <<VIEW3D_MT_editor_menus, bf2_is_setup, controllers_step>>
          ELSE /\ controllers_step' = [controllers_step EXCEPT ![sc] = 1]
               /\ _bf2_setup_started(sc)
               /\ reported' = FALSE
    /\ dialog' = FALSE
    /\ UNCHANGED codec_vars

\* IMPORT_OT_bf2_anim_ctrl_setup_end.execute in the scene sc, where its poll
\* returns true; setup_controllers(context, step=2) returns or raises
setup_end_execute ==
    /\ \E sc \in Scenes : \E raises \in BOOLEAN :
          /\ _bf2_is_setup(sc)
          /\ IF raises
             THEN /\ reported' = TRUE
                  /\ UNCHANGED <<VIEW3D_MT_editor_menus, bf2_is_setup, controllers_step>>
             ELSE /\ controllers_step' = [controllers_step EXCEPT ![sc] = 2]
                  /\ _bf2_setup_finished(sc)
                  /\ reported' = FALSE
    /\ UNCHANGED dialog
    /\ UNCHANGED codec_vars

\* IMPORT_OT_bf2_anim_ctrl_setup_mask.execute in the scene sc, where its poll
\* returns true; toggle_mesh_mask_mesh_for_active_bone returns or raises
setup_mask_execute ==
    /\ \E sc \in Scenes : \E raises \in BOOLEAN :
          /\ _bf2_is_setup(sc)
          /\ reported' = raises
    /\ UNCHANGED <<VIEW3D_MT_editor_menus, bf2_is_setup, controllers_step, dialog>>
    /\ UNCHANGED codec_vars

\* the add-on registered, no document at hand
SetupInit ==
    /\ mesh = NoMesh
    /\ doc0 = NoMesh
    /\ prev = NoMesh
    /\ file = <<>>
    /\ err = OK
    /\ pc = "built"
    /\ gen = 0
    /\ tampered = FALSE
    /\ consumed = NotLoaded
    /\ exp = NoSections
    /\ NoSetup

SetupNext ==
    \/ setup_begin_invoke
    \/ setup_begin_cancel
    \/ setup_begin_execute
    \/ setup_end_execute
    \/ setup_mask_execute

SetupSpec == SetupInit /\ [][SetupNext]_vars

(* ------------------------------------------------------------------ *)
(* Properties                                                          *)
(* ------------------------------------------------------------------ *)

\* the file on disk is the file the last export wrote, unchanged
FileAsWritten == ~(tampered /\ gen = 1)

\* an export has ended, and so has the load of its file if it wrote one
RoundTripEnded ==
    gen >= 1 /\ FileAsWritten /\ pc \in {"export_failed", "load_failed", "loaded"}

\* load returned without raising, so that the size check was made
LoadReturned == pc \in {"loaded", "load_failed"} /\ err \in {OK, "CorruptFile"}

HasAlphaBlend(geoms) ==
    \E i \in 1..Len(MatPaths(geoms)) :
        MatAt(geoms, MatPaths(geoms)[i]).alpha_mode = ALPHA_BLEND

Declares(attrs, usage) == \E i \in 1..Len(attrs) : attrs[i].decl_usage = usage

\* a vertex as it is, and as packing its values into floats leaves it
Exact(vertex) == vertex
Packed(vertex) ==
    Vertex(Float32Tuple(vertex.position), Float32Tuple(vertex.texcoord0))

SameTree(a, b) ==
    Len(a) = Len(b) /\ LodPaths(a) = LodPaths(b) /\ MatPaths(a) = MatPaths(b)

\* material n has the strings and the faces of material m, and the vertices
\* of m as Kept leaves them
SameMaterial(m, n, Kept(_)) ==
    /\ n.fxfile = m.fxfile /\ n.technique = m.technique /\ n.maps = m.maps
    /\ n.faces = m.faces
    /\ n.vertices = [i \in 1..Len(m.vertices) |-> Kept(m.vertices[i])]

StructurallyEqual(a, b, Kept(_)) ==
    /\ SameTree(a.geoms, b.geoms)
    /\ \A i \in 1..Len(MatPaths(a.geoms)) :
          SameMaterial(MatAt(a.geoms, MatPaths(a.geoms)[i]),
                       MatAt(b.geoms, MatPaths(a.geoms)[i]), Kept)

\* every vertex of doc has a value for every channel a used row declares
UsedChannelsSet(doc) ==
    \A i \in 1..Len(MatPaths(doc.geoms)) :
        \A j \in 1..Len(MatAt(doc.geoms, MatPaths(doc.geoms)[i]).vertices) :
            \A k \in 1..Len(doc.vertex_attributes) :
                doc.vertex_attributes[k]._flag # UNUSED =>
                    Channel(MatAt(doc.geoms, MatPaths(doc.geoms)[i]).vertices[j],
                            doc.vertex_attributes[k].decl_usage) # NoneVal

\* a document the format can hold: a declaration table that declares the
\* position, no row flagged unused, every element type supported; a format
\* version above the legacy one unless there is no lod; at least one vertex
\* in every material, and on every vertex a value for exactly the declared
\* channels
ChannelsAsDeclared(attrs, vertex) ==
    \A usage \in {POSITION, TEXCOORD0} :
        (Channel(vertex, usage) # NoneVal) <=> Declares(attrs, usage)

Encodable(doc) ==
    /\ Declares(doc.vertex_attributes, POSITION)
    /\ \A i \in 1..Len(doc.vertex_attributes) :
          /\ doc.vertex_attributes[i]._flag # UNUSED
          /\ StructCells(doc.vertex_attributes[i].decl_type) > 0
    /\ doc._VERSION > LEGACY_VERSION \/ LodPaths(doc.geoms) = <<>>
    /\ \A i \in 1..Len(MatPaths(doc.geoms)) :
          /\ MatAt(doc.geoms, MatPaths(doc.geoms)[i]).vertices # <<>>
          /\ \A j \in 1..Len(MatAt(doc.geoms, MatPaths(doc.geoms)[i]).vertices) :
                ChannelsAsDeclared(doc.vertex_attributes,
                                   MatAt(doc.geoms, MatPaths(doc.geoms)[i]).vertices[j])

\* C1, as stated: for every document without an ALPHA_BLEND material, every
\* used channel set on every vertex, export followed by load of the written
\* file succeeds and yields a document with the same tree, strings, vertex
\* values and face lists.
C1_RoundTripOfEveryDocument ==
    (RoundTripEnded /\ ~HasAlphaBlend(prev.geoms) /\ UsedChannelsSet(prev))
        => (pc = "loaded" /\ StructurallyEqual(prev, mesh, Exact))

\* C1, amended: for every document without an ALPHA_BLEND material that the
\* format can hold (Encodable), export followed by load of the written file
\* succeeds and yields a document with the same tree, the same strings, the
\* same face lists, and the vertex values of the original packed into floats.
C1_RoundTripOfEncodable ==
    (RoundTripEnded /\ ~HasAlphaBlend(prev.geoms) /\ Encodable(prev))
        => (pc = "loaded" /\ StructurallyEqual(prev, mesh, Packed))

\* C1 witness: a document of two materials with two faces or more each has
\* made the round trip, and packing changed one of its vertex values
C1_RoundTripWitness ==
    /\ pc = "loaded" /\ gen = 1 /\ ~tampered
    /\ ~HasAlphaBlend(prev.geoms) /\ Encodable(prev)
    /\ Len(MatPaths(prev.geoms)) = 2
    /\ \A i \in 1..2 : Len(MatAt(prev.geoms, MatPaths(prev.geoms)[i]).faces) >= 2
    /\ ~StructurallyEqual(prev, mesh, Exact)
    /\ StructurallyEqual(prev, mesh, Packed)

\* the index of a material in loop order -> the material, after the export
ExportedMat(i) == MatAt(mesh.geoms, MatPaths(mesh.geoms)[i])

\* the b-th block (b = 1..8) the export wrote for the material mat
ExportedBlock(mat, b) ==
    SubSeq(exp.index_buffer, mat._istart + (b - 1) * mat._inum + 1,
           mat._istart + b * mat._inum)

\* the triangles of a run of indices
Triples(indices) ==
    [i \in 1..(Len(indices) \div 3) |->
        <<indices[3 * i - 2], indices[3 * i - 1], indices[3 * i]>>]

\* a stable sort of (key, face) pairs on the key alone
RECURSIVE InsertByKey(_, _)
InsertByKey(sorted, p) ==
    IF sorted = <<>> THEN <<p>>
    ELSE IF p[1] < Head(sorted)[1] THEN <<p>> \o sorted
    ELSE <<Head(sorted)>> \o InsertByKey(Tail(sorted), p)

RECURSIVE StableByKey(_)
StableByKey(pairs) ==
    IF pairs = <<>> THEN <<>>
    ELSE InsertByKey(StableByKey(SubSeq(pairs, 1, Len(pairs) - 1)), pairs[Len(pairs)])

\* the faces of mat in ascending order of their distance to the plane,
\* faces at equal distance in the order of mat.faces
StableOrder(mat, plane) ==
    LET s == StableByKey([i \in 1..Len(mat.faces) |->
                             <<FaceDist(mat, mat.faces[i], plane), mat.faces[i]>>])
    IN  [i \in 1..Len(s) |-> s[i][2]]

\* C2: in every block an ALPHA_BLEND material emits, faces of smaller key
\* precede faces of larger key and faces of equal key keep the relative order
\* they have in the material's faces list.
C2_StableOnKeyAlone ==
    pc = "exported" =>
        \A i \in 1..Len(MatPaths(mesh.geoms)) :
            ExportedMat(i).alpha_mode = ALPHA_BLEND =>
                \A b \in 1..ALPHA_BLEND_FACE_SET_COUNT :
                    Triples(ExportedBlock(ExportedMat(i), b))
                        = StableOrder(ExportedMat(i),
                                      _get_sorting_planes(ExportedMat(i))[b])

\* the ALPHA_BLEND materials of doc hold positions that packing keeps
BlendPositionsPacked(doc) ==
    \A i \in 1..Len(MatPaths(doc.geoms)) :
        MatAt(doc.geoms, MatPaths(doc.geoms)[i]).alpha_mode = ALPHA_BLEND =>
            \A j \in 1..Len(MatAt(doc.geoms, MatPaths(doc.geoms)[i]).vertices) :
                Packed(MatAt(doc.geoms, MatPaths(doc.geoms)[i]).vertices[j]).position
                    = MatAt(doc.geoms, MatPaths(doc.geoms)[i]).vertices[j].position

\* the ALPHA_BLEND materials of the document loaded last have the active
\* face list and the 8 face sets they had when it was exported
FaceSetsRegenerated ==
    \A i \in 1..Len(MatPaths(prev.geoms)) :
        MatAt(prev.geoms, MatPaths(prev.geoms)[i]).alpha_mode = ALPHA_BLEND =>
            /\ ExportedMat(i).faces = MatAt(prev.geoms, MatPaths(prev.geoms)[i]).faces
            /\ Len(ExportedMat(i).face_sets) = ALPHA_BLEND_FACE_SET_COUNT
            /\ ExportedMat(i).face_sets
                   = MatAt(prev.geoms, MatPaths(prev.geoms)[i]).face_sets

\* C3, as stated: with D1 = load(export(D0)) and D2 = load(export(D1)), every
\* ALPHA_BLEND material of D2 has the active face list and the 8 face sets
\* of D1.
C3_SecondRoundTripOfEveryDocument ==
    (gen = 2 /\ pc = "loaded" /\ ~tampered) => FaceSetsRegenerated

\* C3, amended: the same, for every document D0 whose ALPHA_BLEND materials
\* hold vertex positions that are 32-bit floats (positions that packing
\* leaves unchanged), and for every later round trip as well.
C3_SecondRoundTripOfPacked ==
    (gen >= 2 /\ pc = "loaded" /\ ~tampered /\ BlendPositionsPacked(doc0))
        => FaceSetsRegenerated

\* C3 witness: a second round trip of an ALPHA_BLEND material of three faces
\* has ended; the first export reordered its faces, and its face sets differ
\* from one plane to another
C3_SecondRoundTripWitness ==
    /\ gen = 2 /\ pc = "loaded" /\ ~tampered /\ BlendPositionsPacked(doc0)
    /\ \E i \in 1..Len(MatPaths(prev.geoms)) :
          /\ ExportedMat(i).alpha_mode = ALPHA_BLEND
          /\ Len(ExportedMat(i).faces) = 3
          /\ ExportedMat(i).faces # MatAt(doc0.geoms, MatPaths(doc0.geoms)[i]).faces
          /\ \E b \in 2..ALPHA_BLEND_FACE_SET_COUNT :
                ExportedMat(i).face_sets[b] # ExportedMat(i).face_sets[1]

\* the position in the file of the count of declaration rows, the count the
\* last export wrote, and the number of rows it wrote after the count
AttrCountPos == Len(exp.head) + 1
WrittenAttrCount == exp.table[1].v
WrittenAttrRows == (Len(exp.table) - 1) \div 4

\* the row-th row the last export wrote holds the type and usage of a
WrittenRowIs(row, a) ==
    /\ exp.table[4 * row].v = a.decl_type
    /\ exp.table[4 * row + 1].v = a.decl_usage

\* C4: load of a table of N rows and the sentinel leaves N attributes; and
\* for every in-memory table of N attributes, whatever their flags, export
\* writes the count N + 1 and then exactly N + 1 rows: the N rows in
\* declaration order and the unused sentinel.
C4_RowCountWritten ==
    /\ pc = "loaded" => Len(mesh.vertex_attributes) = file[AttrCountPos].v - 1
    /\ pc = "exported" =>
          /\ WrittenAttrCount = Len(prev.vertex_attributes) + 1
          /\ WrittenAttrRows = WrittenAttrCount
          /\ \A i \in 1..Len(prev.vertex_attributes) :
                WrittenRowIs(i, prev.vertex_attributes[i])
          /\ exp.table[Len(exp.table) - 3].v = UNUSED

\* C5: a construction whose load consumed a number of bytes other than the
\* size of the file fails with the corrupt-file error and leaves no
\* document; and a file that loads, with one byte appended, does not load.
C5_SizeMismatchIsCorruptFile ==
    /\ (LoadReturned /\ consumed.bytes # ByteSize(file)) =>
          (pc = "load_failed" /\ err = "CorruptFile" /\ mesh = NoMesh)
    /\ (LoadReturned /\ consumed.bytes = ByteSize(file)) => pc = "loaded"
    /\ (pc \in {"loaded", "load_failed"}
        /\ file[Len(file)] = B(0)
        /\ Construct(SubSeq(file, 1, Len(file) - 1),
                     prev.transparent, prev._VERSION).err = OK) =>
          (pc = "load_failed" /\ err = "CorruptFile" /\ mesh = NoMesh)

\* C5 witness: the file of a document with materials, one byte appended, was
\* read to the end of what export wrote and rejected
C5_ExtraByteWitness ==
    /\ pc = "load_failed" /\ err = "CorruptFile" /\ tampered
    /\ file[Len(file)] = B(0)
    /\ consumed.bytes = ByteSize(file) - 1
    /\ "materials" \in {consumed.sections[i] : i \in 1..Len(consumed.sections)}
    /\ MatPaths(prev.geoms) # <<>>

\* C6: when the primitive-type field holds a valid code other than triangle
\* list, load aborts with the unsupported-primitive-type error having read
\* the header, the geoms, the declaration table and the primitive type, and
\* nothing after it; no document is returned.
C6_UnsupportedPrimitiveAbortsEarly ==
    (pc \in {"loaded", "load_failed"}
     /\ file[PrimitiveTypePos].v \in D3DPRIMITIVETYPE \ {TRIANGLELIST}) =>
        /\ pc = "load_failed" /\ err = "UnsupportedPrimitiveType" /\ mesh = NoMesh
        /\ consumed.sections = <<"header", "geoms", "table", "primitive_type">>
        /\ consumed.bytes = ByteSize(SubSeq(file, 1, PrimitiveTypePos))

\* C6 witness: a file with vertices, indices and materials after a
\* triangle-strip code was rejected
C6_TriangleStripWitness ==
    /\ pc = "load_failed" /\ err = "UnsupportedPrimitiveType"
    /\ file[PrimitiveTypePos] = D(TRIANGLESTRIP)
    /\ exp.vertex_buffer # <<>> /\ exp.index_buffer # <<>>
    /\ consumed.bytes < ByteSize(file)

\* the number of elements of seq equal to x
Count(seq, x) == Cardinality({i \in 1..Len(seq) : seq[i] = x})

\* a and b hold the same elements, each as many times
IsPermutation(a, b) ==
    Len(a) = Len(b) /\ \A i \in 1..Len(a) : Count(a, a[i]) = Count(b, a[i])

\* where the indices of the material after the i-th begin: its recorded
\* offset, or the end of the index buffer after the last material
OffsetAfter(i) ==
    IF i < Len(MatPaths(mesh.geoms)) THEN ExportedMat(i + 1)._istart
    ELSE Len(exp.index_buffer)

\* C7: on export, every ALPHA_BLEND material with F faces has the recorded
\* index count 3F and, from its recorded index offset on, 8 blocks of 3F
\* indices, each a permutation of its faces; the indices of the next
\* material begin 8 * 3F further (the index buffer ends there after the last).
C7_EightBlocksAppended ==
    pc = "exported" =>
        \A i \in 1..Len(MatPaths(mesh.geoms)) :
            ExportedMat(i).alpha_mode = ALPHA_BLEND =>
                /\ ExportedMat(i)._inum = 3 * Len(ExportedMat(i).faces)
                /\ OffsetAfter(i) = ExportedMat(i)._istart
                                        + 8 * 3 * Len(ExportedMat(i).faces)
                /\ \A b \in 1..8 :
                      IsPermutation(Triples(ExportedBlock(ExportedMat(i), b)),
                                    ExportedMat(i).faces)

\* C7 witness: an ALPHA_BLEND material of three faces was exported in front
\* of another material with faces, and two of its blocks differ
C7_EightBlocksWitness ==
    /\ pc = "exported"
    /\ Len(MatPaths(mesh.geoms)) = 2
    /\ ExportedMat(1).alpha_mode = ALPHA_BLEND
    /\ Len(ExportedMat(1).faces) = 3
    /\ ExportedMat(2).faces # <<>>
    /\ ExportedMat(2)._istart = 72
    /\ \E b \in 2..8 :
          ExportedBlock(ExportedMat(1), b) # ExportedBlock(ExportedMat(1), 1)

\* the position in the file of the field that follows the index buffer
AfterBuffersPos == Len(exp.head) + Len(exp.table) + Len(exp.decl) + Len(exp.data) + 1

\* the face-set count that belongs in the file of the document doc
ExpectedFaceSetCount(doc) ==
    IF ~doc.transparent THEN <<>>
    ELSE IF HasAlphaBlend(doc.geoms) THEN <<D(8)>> ELSE <<D(0)>>

\* C8: export of a transparency-capable document writes the face-set count
\* once, after the index buffer: 8 if a material has ALPHA_BLEND, 0 if none
\* has; export of another document does not write it; and load reads the
\* field exactly for a transparency-capable document.
C8_FaceSetCountField ==
    /\ (pc = "exported" /\ FileAsWritten) =>
          /\ exp.face_set_count = ExpectedFaceSetCount(prev)
          /\ Len(file) = AfterBuffersPos - 1 + Len(ExpectedFaceSetCount(prev))
                             + Len(exp.bounds) + Len(exp.materials)
          /\ SubSeq(file, AfterBuffersPos,
                    AfterBuffersPos + Len(ExpectedFaceSetCount(prev)) - 1)
                 = ExpectedFaceSetCount(prev)
    /\ LoadReturned =>
          /\ prev.transparent <=>
                "face_set_count" \in {consumed.sections[i] :
                                         i \in 1..Len(consumed.sections)}
          /\ prev.transparent =>
                consumed.alpha_blend_indexnum = file[AfterBuffersPos].v
          /\ ~prev.transparent => consumed.alpha_blend_indexnum = NoneInt

\* C8 witness: a transparency-capable document in which one material has
\* ALPHA_BLEND and one has not made the round trip, the count read being 8
C8_FaceSetCountWitness ==
    /\ pc = "loaded" /\ ~tampered /\ prev.transparent
    /\ consumed.alpha_blend_indexnum = 8
    /\ Len(MatPaths(prev.geoms)) = 2
    /\ MatAt(prev.geoms, MatPaths(prev.geoms)[1]).alpha_mode = NONE
    /\ MatAt(prev.geoms, MatPaths(prev.geoms)[2]).alpha_mode = ALPHA_BLEND

\* the number of fields of the record Material.save writes for mat
RecordLen(mat, transparent) ==
    (IF transparent THEN 1 ELSE 0) + 3 + Len(mat.maps) + 6

\* the number of the lod, in loop order, that holds the i-th material
LodOrdinal(geoms, i) ==
    CHOOSE k \in 1..Len(LodPaths(geoms)) :
        LodPaths(geoms)[k] = SubSeq(MatPaths(geoms)[i], 1, 2)

\* the position, in the material tables, of the last field of the record of
\* the i-th material: one count per lod up to its own, and the records up to
\* its own
RecordEnd(doc, i) ==
    LodOrdinal(doc.geoms, i)
    + Sum([j \in 1..i |->
              RecordLen(MatAt(doc.geoms, MatPaths(doc.geoms)[j]), doc.transparent)])

\* the two reserved integers in the record of the i-th material of the
\* material tables
ReservedIn(tables, doc, i) ==
    <<tables[RecordEnd(doc, i) - 1].v, tables[RecordEnd(doc, i)].v>>

\* the reserved integers the i-th material of doc holds
ReservedOf(doc, i) ==
    <<MatAt(doc.geoms, MatPaths(doc.geoms)[i])._u4,
      MatAt(doc.geoms, MatPaths(doc.geoms)[i])._u5>>

\* C9, as stated: for every material loaded from a file with reserved values
\* (u4, u5), exporting the document writes (u4, u5) in that material's record.
C9_ReservedPreserved ==
    (pc = "exported" /\ gen >= 2) =>
        \A i \in 1..Len(MatPaths(prev.geoms)) :
            ReservedIn(exp.materials, prev, i) = ReservedOf(prev, i)

\* C9, amended: load keeps the two reserved integers of a material's record
\* in the material, and export writes 0 for both in every material's record,
\* whatever the material holds.
C9_ReservedWrittenAsZero ==
    /\ pc = "exported" =>
          \A i \in 1..Len(MatPaths(prev.geoms)) :
              ReservedIn(exp.materials, prev, i) = <<0, 0>>
    /\ pc = "loaded" =>
          \A i \in 1..Len(MatPaths(mesh.geoms)) :
              ReservedOf(mesh, i)
                  = ReservedIn(SubSeq(file, Len(file) - Len(exp.materials) + 1, Len(file)),
                               mesh, i)

\* C9 witness: a document loaded with the reserved integers (7, 9) in a
\* material was exported
C9_ReservedWitness ==
    /\ pc = "exported" /\ gen = 2
    /\ \E i \in 1..Len(MatPaths(prev.geoms)) : ReservedOf(prev, i) = <<7, 9>>

\* the coordinates on axis a of the vertex positions of a lod, as floats
LodCoordinates(lod, a) ==
    UNION { { Float32(lod.materials[m].vertices[v].position[a]) :
                v \in 1..Len(lod.materials[m].vertices) } :
            m \in 1..Len(lod.materials) }

\* x is the least and y the greatest element of coords
LeastAndGreatest(coords, x, y) ==
    /\ x \in coords /\ \A z \in coords : x <= z
    /\ y \in coords /\ \A z \in coords : z <= y

\* C10: on export, for every lod with vertices and for each axis, the min
\* written is the smallest and the max written the largest coordinate of the
\* vertex positions of the materials of the lod.
C10_BoundsAreUnion ==
    pc = "exported" =>
        \A k \in 1..Len(LodPaths(prev.geoms)) :
            \A a \in 1..3 :
                LodCoordinates(LodAt(prev.geoms, LodPaths(prev.geoms)[k]), a) # {} =>
                    LeastAndGreatest(
                        LodCoordinates(LodAt(prev.geoms, LodPaths(prev.geoms)[k]), a),
                        exp.bounds[6 * (k - 1) + a].v,
                        exp.bounds[6 * (k - 1) + 3 + a].v)

\* an export has just ended
ExportEnded == gen >= 1 /\ pc \in {"exported", "export_failed"}

\* the i-th material of doc, in loop order
MatOf(doc, i) == MatAt(doc.geoms, MatPaths(doc.geoms)[i])

\* a vertex of mat has no value for a channel a used row of attrs names
LacksUsedChannel(attrs, mat) ==
    \E j \in 1..Len(mat.vertices) :
        \E k \in 1..Len(attrs) :
            /\ attrs[k]._flag # UNUSED
            /\ Channel(mat.vertices[j], attrs[k].decl_usage) = NoneVal

\* the materials of doc, by their place in loop order, that lack a used channel
Lacking(doc) ==
    {i \in 1..Len(MatPaths(doc.geoms)) :
        LacksUsedChannel(doc.vertex_attributes, MatOf(doc, i))}

\* save_faces of mat raises: an ALPHA_BLEND material whose bounds or face
\* centres cannot be calculated
SortRaises(mat) ==
    /\ mat.alpha_mode = ALPHA_BLEND
    /\ \/ mat.vertices = <<>>
       \/ \E j \in 1..Len(mat.vertices) : mat.vertices[j].position = NoneVal
       \/ \E i \in 1..Len(mat.faces) : \E j \in 1..3 :
              mat.faces[i][j] >= Len(mat.vertices)

\* save_faces of a material in front of the first one that lacks a used
\* channel raises
SortRaisesFirst(doc) ==
    \E i \in 1..Len(MatPaths(doc.geoms)) :
        /\ \A k \in Lacking(doc) : i < k
        /\ SortRaises(MatOf(doc, i))

\* the cells of the used channels of all vertices of doc, in loop order
UsedCells(doc) ==
    Flatten([i \in 1..Len(MatPaths(doc.geoms)) |->
        Flatten([j \in 1..Len(MatOf(doc, i).vertices) |->
            Flatten([k \in 1..Len(doc.vertex_attributes) |->
                IF doc.vertex_attributes[k]._flag = UNUSED THEN <<>>
                ELSE Float32Tuple(Channel(MatOf(doc, i).vertices[j],
                                          doc.vertex_attributes[k].decl_usage))])])])

IndexLen(mat) ==
    IF mat.alpha_mode = ALPHA_BLEND
    THEN ALPHA_BLEND_FACE_SET_COUNT * mat._inum
    ELSE mat._inum

\* the ends of the vertex range and of the index range of the materials in
\* front of the i-th material of the exported document
VertexEndBefore(i) == Sum([j \in 1..(i - 1) |-> ExportedMat(j)._vnum])
IndexEndBefore(i) == Sum([j \in 1..(i - 1) |-> IndexLen(ExportedMat(j))])

\* the vertex-count and index-count fields of the exported file
WrittenVertexCount == file[Len(exp.head) + Len(exp.table) + Len(exp.decl) + 1].v
WrittenIndexCount ==
    file[Len(exp.head) + Len(exp.table) + Len(exp.decl) + 1
         + Len(Raw(exp.vertex_buffer)) + 1].v

\* the fields _vstart, _istart, _inum, _vnum of the record of the i-th
\* material in the exported file
WrittenRanges(i) ==
    [j \in 1..4 |->
        file[Len(file) - Len(exp.materials) + RecordEnd(mesh, i) - 6 + j].v]

\* C12: after a successful export, whatever offsets and counts the materials
\* held before, the vertex ranges of the materials in loop order start at 0
\* and each begins where the one before ends, _vnum is the material's number
\* of vertices and the written vertex count is the sum of all _vnum; the
\* index ranges (8 blocks of _inum for an ALPHA_BLEND material) begin where
\* the one before ends, and the written index count is their total length.
C12_RangesContiguous ==
    (pc = "exported" /\ FileAsWritten) =>
        /\ \A i \in 1..Len(MatPaths(mesh.geoms)) :
              /\ ExportedMat(i)._vnum = Len(MatOf(prev, i).vertices)
              /\ ExportedMat(i)._vstart = VertexEndBefore(i)
              /\ ExportedMat(i)._inum = 3 * Len(MatOf(prev, i).faces)
              /\ ExportedMat(i)._istart = IndexEndBefore(i)
              /\ WrittenRanges(i)
                    = <<ExportedMat(i)._vstart, ExportedMat(i)._istart,
                        ExportedMat(i)._inum, ExportedMat(i)._vnum>>
        /\ WrittenVertexCount = VertexEndBefore(Len(MatPaths(mesh.geoms)) + 1)
        /\ WrittenIndexCount = IndexEndBefore(Len(MatPaths(mesh.geoms)) + 1)
        /\ WrittenIndexCount = Len(exp.index_buffer)

\* C12 witness: a document loaded with a material that shared the vertices of
\* the material in front of it is exported: the offset it held is replaced
C12_StaleOffsetWitness ==
    /\ pc = "exported" /\ gen = 2
    /\ Len(MatPaths(mesh.geoms)) = 2
    /\ MatOf(prev, 1).alpha_mode = ALPHA_BLEND
    /\ MatOf(prev, 1).faces # <<>>
    /\ MatOf(prev, 2)._vstart = 0
    /\ MatOf(prev, 2).faces # <<>>
    /\ ExportedMat(2)._vstart > 0

\* every index of a list of faces is an index into a list of n vertices
FacesWithin(faces, n) ==
    \A i \in 1..Len(faces) : \A j \in 1..3 : faces[i][j] \in 0..(n - 1)

\* C13: in every document obtained by a successful load, and in every file
\* written by a successful export, each index of each face of each material
\* and of each of its face sets is an index into the material's own vertices:
\* 0 <= index < number of vertices of the material.
C13_FaceIndicesValid ==
    /\ pc = "loaded" =>
          \A i \in 1..Len(MatPaths(mesh.geoms)) :
              /\ FacesWithin(ExportedMat(i).faces, Len(ExportedMat(i).vertices))
              /\ \A k \in 1..Len(ExportedMat(i).face_sets) :
                    FacesWithin(ExportedMat(i).face_sets[k],
                                Len(ExportedMat(i).vertices))
    /\ (pc = "exported" /\ FileAsWritten) =>
          \A i \in 1..Len(MatPaths(mesh.geoms)) :
              \A k \in 1..IndexLen(ExportedMat(i)) :
                  exp.index_buffer[WrittenRanges(i)[2] + k]
                      \in 0..(WrittenRanges(i)[4] - 1)

\* C14: for a format version <= 6 the bounds record of each lod carries one
\* extra 3-float vector after min and max, when reading and when writing:
\* export writes 9 floats per lod and load reads 9, so that load consumes an
\* exported file exactly; for a version > 6 both write and read 6.
C14_LegacyVectorBothWays ==
    /\ (pc = "exported" /\ FileAsWritten) =>
          Len(exp.bounds)
              = (IF mesh._VERSION <= LEGACY_VERSION THEN 9 ELSE 6)
                * Len(LodPaths(mesh.geoms))
    /\ (pc \in {"loaded", "load_failed"} /\ FileAsWritten) =>
          /\ err \notin {"CorruptFile", "Misparse", "EOF"}
          /\ pc = "loaded" =>
                Len(consumed.sections.bounds)
                    = (IF mesh._VERSION <= LEGACY_VERSION THEN 9 ELSE 6)
                      * Len(LodPaths(mesh.geoms))

\* the face-set count field of the file a transparency-capable document was
\* loaded from
FaceSetCountRead == file[AfterBuffersPos].v

\* the b-th block (b = 1, 2, ...) of _inum indices from the _istart of mat
LoadedBlock(mat, b) ==
    Triples(SubSeq(exp.index_buffer, mat._istart + (b - 1) * mat._inum + 1,
                   mat._istart + b * mat._inum))

\* a material without blending has the faces of its index range and no face
\* sets
SingleFaceList(mat) ==
    /\ mat.faces = LoadedBlock(mat, 1)
    /\ mat.face_sets = NoneVal

\* C15, as stated: after a successful load every ALPHA_BLEND material has
\* exactly 8 face sets, face set i being the triples of the index range
\* [_istart + i * _inum, _istart + (i + 1) * _inum), and its faces list is
\* face set 0, for every value of the face-set count field of the file;
\* a material with mode NONE or ALPHA_TEST has the single face list of
\* [_istart, _istart + _inum) and no face sets.
C15_EightFaceSets ==
    pc = "loaded" =>
        \A i \in 1..Len(MatPaths(mesh.geoms)) :
            IF ExportedMat(i).alpha_mode = ALPHA_BLEND
            THEN /\ Len(ExportedMat(i).face_sets) = ALPHA_BLEND_FACE_SET_COUNT
                 /\ \A b \in 1..Len(ExportedMat(i).face_sets) :
                       ExportedMat(i).face_sets[b] = LoadedBlock(ExportedMat(i), b)
                 /\ ExportedMat(i).faces = ExportedMat(i).face_sets[1]
            ELSE SingleFaceList(ExportedMat(i))

\* C15, amended: after a successful load every ALPHA_BLEND material has as
\* many face sets as the face-set count field of the file says, at least
\* one, face set i being the triples of the index range
\* [_istart + i * _inum, _istart + (i + 1) * _inum), and its faces list is
\* face set 0; a load that meets an ALPHA_BLEND material under a count of 0
\* fails; a material with mode NONE or ALPHA_TEST has the single face list of
\* [_istart, _istart + _inum) and no face sets, whatever the count.
C15_FaceSetsAsCounted ==
    /\ pc = "loaded" =>
          \A i \in 1..Len(MatPaths(mesh.geoms)) :
              IF ExportedMat(i).alpha_mode = ALPHA_BLEND
              THEN /\ Len(ExportedMat(i).face_sets) = FaceSetCountRead
                   /\ FaceSetCountRead >= 1
                   /\ \A b \in 1..Len(ExportedMat(i).face_sets) :
                         ExportedMat(i).face_sets[b] = LoadedBlock(ExportedMat(i), b)
                   /\ ExportedMat(i).faces = ExportedMat(i).face_sets[1]
              ELSE SingleFaceList(ExportedMat(i))
    /\ (pc \in {"loaded", "load_failed"} /\ prev.transparent
           /\ HasAlphaBlend(prev.geoms) /\ FaceSetCountRead = 0) =>
          pc = "load_failed"

\* C15 witness: a file with a count of 3 is loaded: its ALPHA_BLEND material
\* has three face sets, not all equal, beside a material without blending
C15_ThreeFaceSetsWitness ==
    /\ pc = "loaded" /\ gen = 1 /\ prev.transparent
    /\ FaceSetCountRead = 3
    /\ \E i \in 1..Len(MatPaths(mesh.geoms)) :
          /\ ExportedMat(i).alpha_mode = ALPHA_BLEND
          /\ Len(ExportedMat(i).face_sets) = 3
          /\ ExportedMat(i).face_sets[1] # ExportedMat(i).face_sets[3]
    /\ \E i \in 1..Len(MatPaths(mesh.geoms)) :
          ExportedMat(i).alpha_mode # ALPHA_BLEND /\ ExportedMat(i).faces # <<>>

\* the faces of a face set in the opposite order
ReversedSet(set) == [i \in 1..Len(set) |-> set[Len(set) + 1 - i]]

\* other contents for the face sets after the first: every set emptied, every
\* set reversed, the sets dropped
Emptied(sets) == [b \in 1..Len(sets) |-> IF b = 1 THEN sets[b] ELSE <<>>]
Reversed(sets) == [b \in 1..Len(sets) |-> IF b = 1 THEN sets[b] ELSE ReversedSet(sets[b])]
Dropped(sets) == IF sets = <<>> THEN sets ELSE <<sets[1]>>

\* the document doc with other face sets after the first in its materials
WithFaceSets(doc, Alter(_)) ==
    [doc EXCEPT !.geoms =
        [g \in 1..Len(doc.geoms) |->
            [doc.geoms[g] EXCEPT !.lods =
                [l \in 1..Len(doc.geoms[g].lods) |->
                    [doc.geoms[g].lods[l] EXCEPT !.materials =
                        [m \in 1..Len(doc.geoms[g].lods[l].materials) |->
                            [doc.geoms[g].lods[l].materials[m] EXCEPT
                                !.face_sets = Alter(@)]]]]]]]

\* export of the document other writes the file and the index buffer the
\* last export wrote
SameOutput(other) ==
    /\ export(other).err = OK
    /\ export(other).file = file
    /\ export(other).sections.index_buffer = exp.index_buffer

\* C16: export does not depend on the face sets after the first: documents
\* that are equal except for face_sets[1..7] of their ALPHA_BLEND materials
\* are written as identical files with identical index buffers, and export
\* leaves the faces list of every material as it was.
C16_FaceSetsIgnored ==
    (pc = "exported" /\ FileAsWritten) =>
        /\ SameOutput(WithFaceSets(prev, Emptied))
        /\ SameOutput(WithFaceSets(prev, Reversed))
        /\ SameOutput(WithFaceSets(prev, Dropped))
        /\ \A i \in 1..Len(MatPaths(mesh.geoms)) :
              /\ ExportedMat(i).faces = MatOf(prev, i).faces
              /\ ExportedMat(i).face_sets = MatOf(prev, i).face_sets

\* C16 witness: a loaded document whose ALPHA_BLEND material holds 8 face
\* sets, not all in the order of the first, has been exported, and the
\* documents with the other face sets differ from it
C16_FaceSetsWitness ==
    /\ pc = "exported" /\ gen = 2
    /\ \E i \in 1..Len(MatPaths(prev.geoms)) :
          /\ MatOf(prev, i).alpha_mode = ALPHA_BLEND
          /\ Len(MatOf(prev, i).face_sets) = ALPHA_BLEND_FACE_SET_COUNT
          /\ \E b \in 2..8 : MatOf(prev, i).face_sets[b] # MatOf(prev, i).face_sets[1]
          /\ Len(MatOf(prev, i).faces) = 3
    /\ WithFaceSets(prev, Emptied) # prev
    /\ WithFaceSets(prev, Reversed) # prev
    /\ WithFaceSets(prev, Dropped) # prev
    /\ WithFaceSets(prev, Emptied) # WithFaceSets(prev, Reversed)
    /\ exp.index_buffer # <<>>

\* no operator has changed anything in a scene other than sc
OnlySceneUsed(sc) == \A o \in Scenes \ {sc} : controllers_step[o] = 0

\* C17: after any sequence of executions of the begin-setup, finish-setup
\* and mask operators in a scene, setup_controllers returning or raising at
\* each step, the menu function is in the editor menu exactly once when the
\* scene's bf2_is_setup flag is set and not at all when the flag is absent.
C17_MenuEntryFollowsFlag ==
    \A sc \in Scenes :
        OnlySceneUsed(sc) =>
            VIEW3D_MT_editor_menus = (IF _bf2_is_setup(sc) THEN 1 ELSE 0)

====
